---------------------------- MODULE Spec2Model ----------------------------
(***************************************************************************)
(* A model of the svelte-router navigation pipeline (src/src/router.ts)    *)
(* with the URL utilities (src/src/utils.ts), the location model           *)
(* (createLocation) and the route composition (src/src/route.js) it uses.  *)
(*                                                                         *)
(* Strings are sequences of one-character strings, so that prefix tests,   *)
(* splitting, parsing and re-assembly are computed as the code computes    *)
(* them.  "/a?k=v" is <<"/", "a", "?", "k", "=", "v">>.                      *)
(***************************************************************************)
EXTENDS Integers, Sequences, FiniteSets, TLC

(***************************************************************************)
(* Bounds of the model.                                                    *)
(***************************************************************************)
\* push/replace calls made by the application plus POP notifications
MaxCalls == 2
\* push, replace, start and history pops when guards act while they execute
MaxSyncCalls == 3
\* navigation guards ever registered
MaxGuards == 2
\* pending routes ever created (a guard may redirect again and again)
MaxAttempts == 3

(***************************************************************************)
(* Values standing for JavaScript's null / undefined.                      *)
(***************************************************************************)
\* an absent string-typed property (path, hash) of a raw location
NoStr == <<"<undefined>">>
\* an absent route name
NoName == "<undefined>"
\* the value of a query entry written without '=' (keyValue[1] is undefined)
Undef == <<"<undefined>">>
\* no route / no redirect
Null == [null |-> TRUE]

(***************************************************************************)
(* src/src/utils.ts                                                        *)
(***************************************************************************)
hasPrefix(s, prefix) ==
  IF Len(prefix) = 0 \/ Len(s) = 0 THEN FALSE
  ELSE Len(prefix) <= Len(s) /\ SubSeq(s, 1, Len(prefix)) = prefix

hasSuffix(s, suffix) ==
  IF Len(suffix) = 0 \/ Len(s) = 0 THEN FALSE
  ELSE Len(suffix) <= Len(s)
       /\ SubSeq(s, Len(s) - Len(suffix) + 1, Len(s)) = suffix

trimPrefix(s, prefix) ==
  IF Len(prefix) > 0 /\ hasPrefix(s, prefix)
  THEN SubSeq(s, Len(prefix) + 1, Len(s))
  ELSE s

joinPath(a, b) ==
  LET aSlash == hasSuffix(a, <<"/">>)
      bSlash == hasPrefix(b, <<"/">>)
  IN  IF aSlash /\ bSlash THEN a \o Tail(b)
      ELSE IF ~aSlash /\ ~bSlash THEN a \o <<"/">> \o b
      ELSE a \o b

\* String.prototype.indexOf for a one-character needle; 0 when absent
IndexOf(s, ch) ==
  IF \E i \in 1..Len(s) : s[i] = ch
  THEN CHOOSE i \in 1..Len(s) : s[i] = ch /\ \A j \in 1..(i - 1) : s[j] # ch
  ELSE 0

\* String.prototype.split for a one-character separator
RECURSIVE Split(_, _)
Split(s, ch) ==
  LET i == IndexOf(s, ch)
  IN  IF i = 0 THEN <<s>>
      ELSE <<SubSeq(s, 1, i - 1)>> \o Split(SubSeq(s, i + 1, Len(s)), ch)

(***************************************************************************)
(* A query object: JavaScript keeps the insertion order of string keys,    *)
(* so a query is a sequence of [k, v] entries with distinct keys.          *)
(***************************************************************************)
QueryHas(q, k) == \E i \in 1..Len(q) : q[i].k = k

QueryGet(q, k) == q[CHOOSE i \in 1..Len(q) : q[i].k = k].v

\* q[k] = v: an existing key keeps its position, a new key is appended
QuerySet(q, k, v) ==
  IF QueryHas(q, k)
  THEN [i \in 1..Len(q) |-> IF q[i].k = k THEN [k |-> k, v |-> v] ELSE q[i]]
  ELSE Append(q, [k |-> k, v |-> v])

\* {...a, ...b}
RECURSIVE QuerySpread(_, _)
QuerySpread(a, b) ==
  IF b = <<>> THEN a
  ELSE QuerySpread(QuerySet(a, Head(b).k, Head(b).v), Tail(b))

\* result.query[keyValue[0]] = keyValue[1] for every entry of the query string
RECURSIVE ParseEntries(_, _)
ParseEntries(entries, q) ==
  IF entries = <<>> THEN q
  ELSE LET keyValue == Split(Head(entries), "=")
           v == IF Len(keyValue) >= 2 THEN keyValue[2] ELSE Undef
       IN  ParseEntries(Tail(entries), QuerySet(q, keyValue[1], v))

\* parseURL; ok = FALSE stands for the thrown Error('invalid URL')
parseURL(path) ==
  LET s1 == Split(path, "#")
      p1 == IF Len(s1) = 2 THEN s1[1] ELSE path
      hash == IF Len(s1) = 2 THEN s1[2] ELSE <<>>
      s2 == Split(p1, "?")
  IN  IF Len(s1) > 2 \/ Len(s2) > 2
      THEN [ok |-> FALSE, base |-> <<>>, query |-> <<>>, hash |-> <<>>]
      ELSE [ok |-> TRUE,
            base |-> s2[1],
            query |-> IF Len(s2) = 2
                      THEN ParseEntries(Split(s2[2], "&"), <<>>)
                      ELSE <<>>,
            hash |-> hash]

\* `${query[key]}`: undefined is written as the text "undefined"
ToText(v) ==
  IF v = Undef THEN <<"u", "n", "d", "e", "f", "i", "n", "e", "d">> ELSE v

RECURSIVE QueryPath(_)
QueryPath(q) ==
  IF q = <<>> THEN <<>>
  ELSE LET rest == QueryPath(Tail(q))
           one == Head(q).k \o <<"=">> \o ToText(Head(q).v)
       IN  IF rest = <<>> THEN one ELSE one \o <<"&">> \o rest

\* the query is left out of the URL
fullURLNoQuery(path, query, hash) ==
  IF Len(hash) > 0 THEN path \o <<"#">> \o hash ELSE path

\* fullURL
fullURL(path, query, hash) ==
  LET queryPath == QueryPath(query)
      p1 == IF Len(queryPath) > 0 THEN path \o <<"?">> \o queryPath ELSE path
  IN  IF Len(hash) > 0 THEN p1 \o <<"#">> \o hash ELSE p1

historyFullURL(location) ==
  location.pathname \o location.search \o location.hash


(***************************************************************************)
(* The history module's location (external collaborator, history v4):     *)
(* push(path) and replace(path) store parsePath(path), whose pathname is  *)
(* never empty.                                                             *)
(***************************************************************************)
parsePath(path) ==
  LET p0 == IF Len(path) = 0 THEN <<"/">> ELSE path
      hi == IndexOf(p0, "#")
      hash == IF hi # 0 THEN SubSeq(p0, hi, Len(p0)) ELSE <<>>
      p1 == IF hi # 0 THEN SubSeq(p0, 1, hi - 1) ELSE p0
      si == IndexOf(p1, "?")
      search == IF si # 0 THEN SubSeq(p1, si, Len(p1)) ELSE <<>>
      p2 == IF si # 0 THEN SubSeq(p1, 1, si - 1) ELSE p1
  IN  [pathname |-> IF Len(p2) = 0 THEN <<"/">> ELSE p2,
       search |-> IF search = <<"?">> THEN <<>> ELSE search,
       hash |-> IF hash = <<"#">> THEN <<>> ELSE hash]

(***************************************************************************)
(* Location model: createLocation (src/unnamed/part_004, the TypeScript    *)
(* version) and Router.rawLocationToLocation.                              *)
(*                                                                         *)
(* A raw location is [kind, path, name, hash, params, query]: kind "null"  *)
(* is null/undefined, kind "str" a string (held in path), kind "obj" an    *)
(* object whose absent properties are NoStr / NoName / <<>>.               *)
(***************************************************************************)
\* String.prototype.replace('#', ''): removes the first '#'
StripHash(h) ==
  LET i == IndexOf(h, "#")
  IN  IF i = 0 THEN h ELSE SubSeq(h, 1, i - 1) \o SubSeq(h, i + 1, Len(h))

\* ok = FALSE stands for the thrown Error('invalid URL, ...')
createLocation(rawLocation) ==
  LET p0 == IF rawLocation.path = NoStr THEN <<>> ELSE rawLocation.path
      path == IF Len(p0) > 0 /\ ~hasPrefix(p0, <<"/">>)
              THEN <<"/">> \o p0 ELSE p0
      action == IF rawLocation.replace = TRUE THEN "REPLACE" ELSE "PUSH"
      hash == IF rawLocation.hash # NoStr THEN StripHash(rawLocation.hash)
              ELSE <<>>
      location == [ok |-> TRUE, name |-> rawLocation.name, path |-> path,
                   hash |-> hash, query |-> rawLocation.query,
                   params |-> rawLocation.params, action |-> action]
      parsedURL == parseURL(path)
  IN  IF Len(path) = 0 THEN location
      ELSE IF ~parsedURL.ok THEN [location EXCEPT !.ok = FALSE]
      ELSE [location EXCEPT
              !.path = parsedURL.base,
              !.query = QuerySpread(location.query, parsedURL.query),
              !.hash = IF Len(parsedURL.hash) > 0 THEN parsedURL.hash
                       ELSE location.hash]

\* the replace flag a location object carries is kept
rawLocationToLocationKeepsFlag(rawLocation, replace) ==
  IF rawLocation.kind = "null"
  THEN [ok |-> FALSE, name |-> NoName, path |-> <<>>, hash |-> <<>>,
        query |-> <<>>, params |-> <<>>, action |-> "PUSH"]
  ELSE createLocation(
         IF rawLocation.kind = "str"
         THEN [path |-> rawLocation.path, name |-> NoName, hash |-> NoStr,
               params |-> <<>>, query |-> <<>>, replace |-> replace]
         ELSE [path |-> rawLocation.path, name |-> rawLocation.name,
               hash |-> rawLocation.hash, params |-> rawLocation.params,
               query |-> rawLocation.query,
               replace |-> IF "replace" \in DOMAIN rawLocation
                           THEN rawLocation.replace ELSE replace])

\* rawLocation.replace = replace overwrites the flag the object carries;
\* ok = FALSE stands for a throw ('invalid rawLocation' or createLocation's)
rawLocationToLocation(rawLocation, replace) ==
  IF rawLocation.kind = "null"
  THEN [ok |-> FALSE, name |-> NoName, path |-> <<>>, hash |-> <<>>,
        query |-> <<>>, params |-> <<>>, action |-> "PUSH"]
  ELSE createLocation(
         IF rawLocation.kind = "str"
         THEN [path |-> rawLocation.path, name |-> NoName, hash |-> NoStr,
               params |-> <<>>, query |-> <<>>, replace |-> replace]
         ELSE [path |-> rawLocation.path, name |-> rawLocation.name,
               hash |-> rawLocation.hash, params |-> rawLocation.params,
               query |-> rawLocation.query, replace |-> replace])

(***************************************************************************)
(* The path pattern compiler (external collaborator, path-to-regexp).      *)
(* A path pattern is a string in which a named parameter is one token of   *)
(* ParamTokens.  Patterns of the model put a parameter only before '/' or  *)
(* at the end of the pattern.                                              *)
(***************************************************************************)
Digits == {"0", "1", "2", "3", "4", "5", "6", "7", "8", "9"}

\* ':id(\\d+)' and ':slug' (default sub-pattern [^\/]+?)
ParamTokens == {":id(\\d+)", ":slug"}

ParamKey(tok) ==
  IF tok = ":id(\\d+)" THEN [name |-> "id", pattern |-> "\\d+"]
  ELSE [name |-> "slug", pattern |-> "[^\\/]+?"]

ParamAccepts(tok, ch) ==
  IF ParamKey(tok).pattern = "\\d+" THEN ch \in Digits ELSE ch # "/"

\* the keys pathToRegexp pushes into route.paramKeys, in pattern order
paramKeysOf(pattern) ==
  LET idx == {i \in 1..Len(pattern) : pattern[i] \in ParamTokens}
      RECURSIVE Build(_)
      Build(i) ==
        IF i > Len(pattern) THEN <<>>
        ELSE IF i \in idx THEN <<ParamKey(pattern[i])>> \o Build(i + 1)
        ELSE Build(i + 1)
  IN  Build(1)

\* length of the longest prefix of path whose characters the parameter accepts
RECURSIVE RunLength(_, _)
RunLength(tok, path) ==
  IF path # <<>> /\ ParamAccepts(tok, Head(path))
  THEN 1 + RunLength(tok, Tail(path))
  ELSE 0

RECURSIVE MatchFrom(_, _, _)
MatchFrom(pat, path, caps) ==
  IF pat = <<>> THEN [ok |-> TRUE, rest |-> path, caps |-> caps]
  ELSE IF Head(pat) \in ParamTokens
  THEN LET n == RunLength(Head(pat), path)
       IN  IF n = 0 THEN [ok |-> FALSE, rest |-> path, caps |-> caps]
           ELSE MatchFrom(Tail(pat), SubSeq(path, n + 1, Len(path)),
                          Append(caps, SubSeq(path, 1, n)))
  ELSE IF path # <<>> /\ Head(path) = Head(pat)
  THEN MatchFrom(Tail(pat), Tail(path), caps)
  ELSE [ok |-> FALSE, rest |-> path, caps |-> caps]

\* pathToRegexp(pattern, keys, {end}).exec(path) in the default non-strict
\* mode: a trailing '/' of the pattern is dropped, one trailing '/' of the
\* path is optional; with end the whole path is consumed, without it the
\* match stops at the end or before a '/'.  caps are the capture groups
\* 1..n (the exec array without its element 0).
pathToRegexpExec(pattern, end, path) ==
  LET pat == IF hasSuffix(pattern, <<"/">>)
             THEN SubSeq(pattern, 1, Len(pattern) - 1) ELSE pattern
      m == MatchFrom(pat, path, <<>>)
      rest == IF m.rest = <<"/">> THEN <<>> ELSE m.rest
  IN  IF ~m.ok THEN [ok |-> FALSE, caps |-> <<>>]
      ELSE IF end THEN [ok |-> rest = <<>>, caps |-> m.caps]
      ELSE [ok |-> (rest = <<>> \/ Head(rest) = "/"), caps |-> m.caps]

\* pathToRegexp.compile(pattern)(params); ok = FALSE stands for the
\* TypeError thrown for a missing parameter or one its pattern rejects
RECURSIVE pathToRegexpCompile(_, _)
pathToRegexpCompile(pattern, params) ==
  IF pattern = <<>> THEN [ok |-> TRUE, path |-> <<>>]
  ELSE LET tok == Head(pattern)
           rest == pathToRegexpCompile(Tail(pattern), params)
       IN  IF tok \in ParamTokens
           THEN LET name == ParamKey(tok).name
                    has == name \in DOMAIN params /\ params[name] # Undef
                    v == IF has THEN params[name] ELSE <<>>
                IN  IF ~has \/ v = <<>>
                       \/ \E i \in 1..Len(v) : ~ParamAccepts(tok, v[i])
                    THEN [ok |-> FALSE, path |-> <<>>]
                    ELSE [ok |-> rest.ok, path |-> v \o rest.path]
           ELSE [ok |-> rest.ok, path |-> <<tok>> \o rest.path]


(***************************************************************************)
(* Route configuration tree: createRouteConfig (src/src/route.js) and      *)
(* Router.preprocessRoutes.                                                *)
(*                                                                         *)
(* A prefab is [path, name, redirect, async, children].  redirect is a raw *)
(* location (NoRedirect when absent); async says that the component is a   *)
(* promise.  The compiled tree is kept flat: nodes[id] is a RouteConfig    *)
(* whose parent and children are ids (parent 0 is null), roots the ids of  *)
(* the top level.                                                          *)
(***************************************************************************)
NoRedirect ==
  [kind |-> "null", path |-> NoStr, name |-> NoName, hash |-> NoStr,
   params |-> <<>>, query |-> <<>>]

Str(path) ==
  [kind |-> "str", path |-> path, name |-> NoName, hash |-> NoStr,
   params |-> <<>>, query |-> <<>>]

Named(name, params) ==
  [kind |-> "obj", path |-> NoStr, name |-> name, hash |-> NoStr,
   params |-> params, query |-> <<>>]

Prefab(path, name, redirect, async, children) ==
  [path |-> path, name |-> name, redirect |-> redirect, async |-> async,
   children |-> children]

\* ok = FALSE stands for the thrown 'invalid route config path property'
createRouteConfig(prefab) ==
  [ok |-> prefab.path # NoStr,
   path |-> prefab.path,
   redirect |-> prefab.redirect,
   async |-> prefab.async,
   name |-> prefab.name,
   children |-> <<>>,
   parent |-> 0]

\* the prefabs after an invalid one are not compiled
RECURSIVE preprocessRoutesStops(_, _, _)
preprocessRoutesStops(nodes, prefabs, parent) ==
  IF prefabs = <<>> THEN [nodes |-> nodes, level |-> <<>>]
  ELSE
    LET prefab == Head(prefabs)
        route == createRouteConfig(prefab)
    IN  IF ~route.ok THEN [nodes |-> nodes, level |-> <<>>]
        ELSE
          LET id == Len(nodes) + 1
              path == IF parent # 0
                      THEN IF Len(route.path) > 0
                           THEN joinPath(nodes[parent].path, route.path)
                           ELSE nodes[parent].path
                      ELSE route.path
              node == [id |-> id,
                       path |-> path,
                       name |-> route.name,
                       redirect |-> route.redirect,
                       async |-> route.async,
                       parent |-> parent,
                       children |-> <<>>,
                       wildcard |-> (path = <<"*">>),
                       end |-> (Len(prefab.children) = 0),
                       paramKeys |-> IF path = <<"*">> THEN <<>>
                                     ELSE paramKeysOf(path)]
              sub == IF Len(prefab.children) > 0
                     THEN preprocessRoutesStops(Append(nodes, node),
                                           prefab.children, id)
                     ELSE [nodes |-> Append(nodes, node), level |-> <<>>]
              linked == [sub.nodes EXCEPT ![id].children = sub.level]
              rest == preprocessRoutesStops(linked, Tail(prefabs), parent)
          IN  [nodes |-> rest.nodes, level |-> <<id>> \o rest.level]

\* Router.preprocessRoutes: nodes are the route configs made so far, each
\* under its id; level are the ids of the routes of these prefabs
RECURSIVE preprocessRoutes(_, _, _)
preprocessRoutes(nodes, prefabs, parent) ==
  IF prefabs = <<>> THEN [nodes |-> nodes, level |-> <<>>]
  ELSE
    LET prefab == Head(prefabs)
        route == createRouteConfig(prefab)
    IN  IF ~route.ok THEN preprocessRoutes(nodes, Tail(prefabs), parent)
        ELSE
          LET id == Len(nodes) + 1
              path == IF parent # 0
                      THEN IF Len(route.path) > 0
                           THEN joinPath(nodes[parent].path, route.path)
                           ELSE nodes[parent].path
                      ELSE route.path
              node == [id |-> id,
                       path |-> path,
                       name |-> route.name,
                       redirect |-> route.redirect,
                       async |-> route.async,
                       parent |-> parent,
                       children |-> <<>>,
                       wildcard |-> (path = <<"*">>),
                       end |-> (Len(prefab.children) = 0),
                       paramKeys |-> IF path = <<"*">> THEN <<>>
                                     ELSE paramKeysOf(path)]
              sub == IF Len(prefab.children) > 0
                     THEN preprocessRoutes(Append(nodes, node),
                                           prefab.children, id)
                     ELSE [nodes |-> Append(nodes, node), level |-> <<>>]
              linked == [sub.nodes EXCEPT ![id].children = sub.level]
              rest == preprocessRoutes(linked, Tail(prefabs), parent)
          IN  [nodes |-> rest.nodes, level |-> <<id>> \o rest.level]

\* the path '*' is compiled like every other path
matcherExecNoWildcard(route, path) ==
  pathToRegexpExec(route.path, route.end, path)

\* route.matcher.exec(path)
matcherExec(route, path) ==
  IF route.wildcard THEN [ok |-> TRUE, caps |-> <<>>]
  ELSE pathToRegexpExec(route.path, route.end, path)

\* route.generator(params)
generator(route, params) ==
  IF route.wildcard THEN [ok |-> TRUE, path |-> <<"/">>]
  ELSE pathToRegexpCompile(route.path, params)

(***************************************************************************)
(* Route records and routes: src/src/route.js.                             *)
(***************************************************************************)
\* every property of the params object is copied into the record
createRouteRecordAllParams(route, params, isArray) ==
  [id |-> route.id,
   path |-> route.path,
   redirect |-> route.redirect,
   name |-> route.name,
   async |-> route.async,
   component |-> IF route.async THEN "promise" ELSE "component",
   params |-> IF isArray
              THEN [n \in {route.paramKeys[i].name :
                             i \in 1..Len(route.paramKeys) \cap 1..Len(params)}
                    |-> params[CHOOSE i \in 1..Len(route.paramKeys) :
                                 route.paramKeys[i].name = n]]
              ELSE [n \in DOMAIN params |-> params[n]]]

\* params is a matcher capture array (isArray) or a params object, of
\* which the properties that are null or undefined are passed over
createRouteRecord(route, params, isArray) ==
  LET keys == route.paramKeys
      set == IF isArray
             THEN {i \in 1..Len(keys) : i <= Len(params)}
             ELSE {i \in 1..Len(keys) :
                     /\ keys[i].name \in DOMAIN params
                     /\ params[keys[i].name] # Undef}
      names == {keys[i].name : i \in set}
  IN  [id |-> route.id,
       path |-> route.path,
       redirect |-> route.redirect,
       name |-> route.name,
       async |-> route.async,
       component |-> IF route.async THEN "promise" ELSE "component",
       params |-> [n \in names |->
                     IF isArray
                     THEN params[CHOOSE i \in set : keys[i].name = n]
                     ELSE params[n]]]

createRoute(location, matches) ==
  LET route == matches[Len(matches)]
  IN  [name |-> route.name,
       action |-> location.action,
       path |-> location.path,
       redirect |-> route.redirect,
       hash |-> location.hash,
       fullPath |-> fullURL(location.path, location.query, location.hash),
       params |-> route.params,
       query |-> location.query,
       matched |-> matches]

\* JSON.parse(JSON.stringify(o)) drops the properties whose value is
\* undefined or a symbol
RECURSIVE DropUndef(_)
DropUndef(q) ==
  IF q = <<>> THEN <<>>
  ELSE IF Head(q).v = Undef THEN DropUndef(Tail(q))
  ELSE <<Head(q)>> \o DropUndef(Tail(q))

\* cloneRoute(null) is the empty object, which Null stands for too
cloneRoute(route) ==
  IF route = Null THEN Null
  ELSE [route EXCEPT
          !.query = DropUndef(@),
          !.matched = [i \in 1..Len(@) |-> [@[i] EXCEPT !.id = 0]]]


(***************************************************************************)
(* The router of the model: its construction options.                      *)
(***************************************************************************)
Basename == <<>>

RoutePrefabs ==
  <<Prefab(<<"/">>, "HOME", NoRedirect, FALSE, <<>>),
    Prefab(<<"/", "a">>, "A", NoRedirect, FALSE, <<>>),
    Prefab(<<"/", "b">>, "B", NoRedirect, TRUE, <<>>),
    Prefab(<<"/", "r">>, NoName, Str(<<"/", "a">>), FALSE, <<>>),
    Prefab(<<"/", "u">>, NoName, NoRedirect, FALSE,
           <<Prefab(<<"/", ":id(\\d+)">>, "USER", NoRedirect, FALSE, <<>>)>>)>>

\* the same routes followed by the wildcard route
WildcardPrefabs ==
  RoutePrefabs \o <<Prefab(<<"*">>, "ANY", NoRedirect, FALSE, <<>>)>>

\* the history location the page is loaded with
InitialURL == <<"/">>

(***************************************************************************)
(* State.                                                                   *)
(***************************************************************************)
VARIABLES
  routeConfigs,      \* this._routes: [nodes, level], see preprocessRoutes
  currentRoute,      \* this._currentRoute (Null or a Route)
  pendingRoute,      \* this._pendingRoute (Null or a Route)
  navigationGuards,  \* this._navigationGuards: sequence of guard keys
  nextKey,           \* number of Symbol() keys handed out to guards
  asyncViews,        \* this._asyncViews: ids of the cached components
  history,           \* the history collaborator: [entries, index]
  components,        \* id of an async route config -> state of its promise
  conts,             \* the next closures handed to guards: sequence of
                     \* [index, call, att, used]
  loads,             \* pending Promise.all joins: set of [call, att, ids]
  stack,             \* guard bodies now executing: sequence of [cont, call]
  started,           \* start() has been called
  calls,             \* per push/replace call: [cb, complete, abort, thrown]
  atts,              \* per pending route created: see resolveRoute
  guardCallbacks,    \* this._navigationGuards[i].guard, by key: the
                     \* callback each key was registered with
  listeners,         \* this._listeners: three Maps, each a sequence of
                     \* [key, callback] in insertion order; issued says
                     \* which Map each Symbol handed out belongs to
  answered,          \* number of calls guards have made to next closures
  last               \* the step just taken: [op, call, k, v, ev, exc]

vars ==
  <<routeConfigs, currentRoute, pendingRoute, navigationGuards, nextKey,
    asyncViews, history, components, conts, loads, stack, started, calls,
    atts, guardCallbacks, listeners, answered, last>>

\* the RouteConfig with this id
Node(id) == routeConfigs.nodes[id]

(***************************************************************************)
(* The router's methods as transformers of a state record s.  s.ev is the  *)
(* sequence of the effects of the step, in the order they happen; s.exc    *)
(* says that an exception is propagating; s.cont is the closure handed to  *)
(* the guard the step has invoked (0 when it has invoked none); s.raw is   *)
(* the raw location being navigated to and s.from the attempt whose guard  *)
(* has redirected to it (0 when none has).                                 *)
(***************************************************************************)
State ==
  [cur |-> currentRoute, pend |-> pendingRoute, guards |-> navigationGuards,
   views |-> asyncViews, hist |-> history, conts |-> conts, loads |-> loads,
   calls |-> calls, atts |-> atts, ev |-> <<>>, exc |-> FALSE, cont |-> 0,
   raw |-> NoRedirect, from |-> 0]

Emit(s, e) == [s EXCEPT !.ev = Append(@, e)]

\* onComplete is never invoked
onCompleteNever(s, call) == s

\* onComplete(), when the caller gave one
onComplete(s, call) ==
  IF call \in DOMAIN s.calls /\ s.calls[call].cb
  THEN Emit([s EXCEPT !.calls[call].complete = @ + 1],
            [e |-> "complete", call |-> call])
  ELSE s

\* onAbort(), when the caller gave one
onAbort(s, call) ==
  IF call \in DOMAIN s.calls /\ s.calls[call].cb
  THEN Emit([s EXCEPT !.calls[call].abort = @ + 1],
            [e |-> "abort", call |-> call])
  ELSE s

\* the error listeners are not notified
notifyOnErrorNever(s, call, why) == s

notifyOnError(s, call, why) ==
  Emit(s, [e |-> "error", call |-> call, why |-> why])

notifyOnBeforeNavigation(s, from, to) ==
  Emit(s, [e |-> "before", att |-> to.att])

notifyOnNavigationChanged(s, from, to) ==
  Emit([s EXCEPT !.atts[to.att].changed = @ + 1],
       [e |-> "changed", att |-> to.att,
        from |-> IF from = Null THEN <<>> ELSE from.fullPath,
        to |-> to.fullPath, old |-> from, new |-> to])

\* this._history.location
historyLocation(s) == s.hist.entries[s.hist.index]

RECURSIVE push(_, _, _, _, _)
RECURSIVE resolveRoute(_, _, _, _)
RECURSIVE resolveRedirect(_, _, _, _)

\* the history listener navigates whatever the action is
onHistoryChangeAnyAction(s, location, action, call) ==
  push(s, Str(historyFullURL(location)), FALSE, call, 0)

\* Router.onHistoryChange, the listener of the history; call is the record
\* of this notification (0 for the notifications of the router's own
\* writes), it has no callbacks
onHistoryChange(s, location, action, call) ==
  IF action = "POP"
  THEN push(s, Str(historyFullURL(location)), FALSE, call, 0)
  ELSE s

\* this._history.push(path): the history stores the location.  It also
\* notifies its listener, onHistoryChange, with PUSH.
historyPush(s, path) ==
  Emit([s EXCEPT !.hist =
          [entries |-> Append(SubSeq(@.entries, 1, @.index), parsePath(path)),
           index |-> @.index + 1]],
       [e |-> "history.push", url |-> path])

\* this._history.replace(path): the history stores the location.  It also
\* notifies its listener, onHistoryChange, with REPLACE.
historyReplace(s, path) ==
  Emit([s EXCEPT !.hist.entries[s.hist.index] = parsePath(path)],
       [e |-> "history.replace", url |-> path])


RECURSIVE findRouteByName(_, _)
findRouteByName(name, routes) ==
  IF routes = <<>> THEN 0
  ELSE IF Node(Head(routes)).name = name THEN Head(routes)
  ELSE LET match == findRouteByName(name, Node(Head(routes)).children)
       IN  IF match # 0 THEN match
           ELSE findRouteByName(name, Tail(routes))

\* the record of a parent is left in matches when none of its children
\* matches
RECURSIVE matchRouteNoPop(_, _, _)
matchRouteNoPop(path, routes, matches) ==
  IF routes = <<>> THEN [ok |-> FALSE, matches |-> matches]
  ELSE
    LET route == Node(Head(routes))
        match == matcherExec(route, path)
        pushed == Append(matches, createRouteRecord(route, match.caps, TRUE))
    IN  IF ~match.ok THEN matchRouteNoPop(path, Tail(routes), matches)
        ELSE IF Len(route.children) = 0
        THEN [ok |-> TRUE, matches |-> pushed]
        ELSE LET sub == matchRouteNoPop(path, route.children, pushed)
             IN  IF sub.ok THEN sub
                 ELSE matchRouteNoPop(path, Tail(routes), sub.matches)

RECURSIVE matchRoute(_, _, _)
matchRoute(path, routes, matches) ==
  IF routes = <<>> THEN [ok |-> FALSE, matches |-> matches]
  ELSE
    LET route == Node(Head(routes))
        match == matcherExec(route, path)
        pushed == Append(matches, createRouteRecord(route, match.caps, TRUE))
    IN  IF ~match.ok THEN matchRoute(path, Tail(routes), matches)
        ELSE IF Len(route.children) = 0
        THEN [ok |-> TRUE, matches |-> pushed]
        ELSE LET sub == matchRoute(path, route.children, pushed)
             IN  IF sub.ok THEN sub
                 ELSE matchRoute(path, Tail(routes),
                        SubSeq(sub.matches, 1, Len(sub.matches) - 1))

\* only the record of the named route, none of its parents
namedRecordsOfLeaf(match, params) ==
  <<createRouteRecord(Node(match), params, FALSE)>>

\* the records of the named route and of its ancestors, the route first
RECURSIVE namedRecords(_, _)
namedRecords(match, params) ==
  <<createRouteRecord(Node(match), params, FALSE)>>
    \o (IF Node(match).parent # 0
        THEN namedRecords(Node(match).parent, params)
        ELSE <<>>)

Reverse(seq) == [i \in 1..Len(seq) |-> seq[Len(seq) + 1 - i]]


\* nested push calls a chain of redirects may make before the JavaScript
\* call stack overflows
MaxRedirects == 4

\* the commit writes the history whatever its location is
afterResolvedAlwaysWrites(s, call, att) ==
  IF s.pend = Null THEN [s EXCEPT !.exc = TRUE]
  ELSE
    LET resolved ==
          [s.pend EXCEPT !.matched =
             [i \in 1..Len(@) |->
                IF @[i].async
                THEN [@[i] EXCEPT !.component =
                        IF s.pend.matched[i].id \in s.views
                        THEN "resolved" ELSE "undefined"]
                ELSE @[i]]]
        s1 == notifyOnNavigationChanged(s, cloneRoute(s.cur),
                                         cloneRoute(resolved))
        s2 == Emit([s1 EXCEPT !.cur = cloneRoute(resolved), !.pend = Null,
                              !.atts[att].commits = @ + 1],
                   [e |-> "commit", att |-> resolved.att, chain |-> att])
        s3 == IF s2.cur.action = "PUSH"
              THEN historyPush(s2, s2.cur.fullPath)
              ELSE historyReplace(s2, s2.cur.fullPath)
    IN  onComplete(s3, call)

\* afterResolved of Router.finishNavigationChange
afterResolved(s, call, att) ==
  IF s.pend = Null THEN [s EXCEPT !.exc = TRUE]
  ELSE
    LET resolved ==
          [s.pend EXCEPT !.matched =
             [i \in 1..Len(@) |->
                IF @[i].async
                THEN [@[i] EXCEPT !.component =
                        IF s.pend.matched[i].id \in s.views
                        THEN "resolved" ELSE "undefined"]
                ELSE @[i]]]
        s1 == notifyOnNavigationChanged(s, cloneRoute(s.cur),
                                         cloneRoute(resolved))
        s2 == Emit([s1 EXCEPT !.cur = cloneRoute(resolved), !.pend = Null,
                              !.atts[att].commits = @ + 1],
                   [e |-> "commit", att |-> resolved.att, chain |-> att])
        s3 == IF historyFullURL(historyLocation(s2)) # s2.cur.fullPath
              THEN IF s2.cur.action = "PUSH"
                   THEN historyPush(s2, s2.cur.fullPath)
                   ELSE IF s2.cur.action = "REPLACE"
                   THEN historyReplace(s2, s2.cur.fullPath)
                   ELSE s2
              ELSE s2
    IN  onComplete(s3, call)

\* the chain commits without waiting for the components
finishNavigationChangeNoWait(s, call, att) ==
  afterResolved(s, call, att)

\* every async component of the pending route is loaded, cached or not
finishNavigationChangeReloads(s, call, att) ==
  IF s.pend = Null THEN [s EXCEPT !.exc = TRUE]
  ELSE
    LET asyncPending ==
          {s.pend.matched[i].id : i \in
             {j \in 1..Len(s.pend.matched) : s.pend.matched[j].async}}
    IN  IF asyncPending # {}
        THEN Emit([s EXCEPT !.loads =
                     Append(@, [call |-> call, att |-> att,
                                ids |-> asyncPending, settled |-> FALSE])],
                  [e |-> "load", att |-> att])
        ELSE afterResolved(s, call, att)

\* Router.finishNavigationChange up to the Promise.all
finishNavigationChange(s, call, att) ==
  IF s.pend = Null THEN [s EXCEPT !.exc = TRUE]
  ELSE
    LET asyncPending ==
          {s.pend.matched[i].id : i \in
             {j \in 1..Len(s.pend.matched) :
                s.pend.matched[j].async
                /\ s.pend.matched[j].id \notin s.views}}
    IN  IF asyncPending # {}
        THEN Emit([s EXCEPT !.loads =
                     Append(@, [call |-> call, att |-> att,
                                ids |-> asyncPending, settled |-> FALSE])],
                  [e |-> "load", att |-> att])
        ELSE afterResolved(s, call, att)

\* the chain finishes once one guard has continued
resolveNavigationGuardOnce(s, index, call, att) ==
  IF index >= 1 \/ index >= Len(s.guards)
  THEN finishNavigationChange(s, call, att)
  ELSE
    LET key == s.guards[index + 1]
        s1 == [s EXCEPT
                 !.conts = Append(@, [index |-> index, call |-> call,
                                      att |-> att, used |-> 0]),
                 !.atts[att].invoked = Append(@, key)]
    IN  Emit([s1 EXCEPT !.cont = Len(s1.conts)],
             [e |-> "guard", key |-> key, att |-> att, index |-> index])

\* Router.resolveNavigationGuard: finish, or invoke the guard at index
\* (0-based) with a fresh next closure
resolveNavigationGuard(s, index, call, att) ==
  IF index >= Len(s.guards) THEN finishNavigationChange(s, call, att)
  ELSE
    LET key == s.guards[index + 1]
        s1 == [s EXCEPT
                 !.conts = Append(@, [index |-> index, call |-> call,
                                      att |-> att, used |-> 0]),
                 !.atts[att].invoked = Append(@, key)]
    IN  Emit([s1 EXCEPT !.cont = Len(s1.conts)],
             [e |-> "guard", key |-> key, att |-> att, index |-> index])

\* the abort closure leaves the pending route in place
abortKeepsPending(s, call, err, why) ==
  LET s1 == onAbort(s, call)
      s2 == IF err THEN notifyOnError(s1, call, why) ELSE s1
  IN  IF s2.cur # Null
         /\ historyFullURL(historyLocation(s2)) # s2.cur.fullPath
      THEN historyPush(s2, s2.cur.fullPath)
      ELSE s2

\* the abort closure drops the error it is given
abortSilent(s, call, err, why) ==
  LET s1 == onAbort([s EXCEPT !.pend = Null], call)
  IN  IF s1.cur # Null
         /\ historyFullURL(historyLocation(s1)) # s1.cur.fullPath
      THEN historyPush(s1, s1.cur.fullPath)
      ELSE s1

\* the abort closure drops the current route with the pending one
abortClearsCurrent(s, call, err, why) ==
  LET s1 == onAbort([s EXCEPT !.pend = Null, !.cur = Null], call)
  IN  IF err THEN notifyOnError(s1, call, why) ELSE s1

\* the abort closure of Router.resolveNavigationGuard
abort(s, call, err, why) ==
  LET s1 == onAbort([s EXCEPT !.pend = Null], call)
      s2 == IF err THEN notifyOnError(s1, call, why) ELSE s1
  IN  IF s2.cur # Null
         /\ historyFullURL(historyLocation(s2)) # s2.cur.fullPath
      THEN historyPush(s2, s2.cur.fullPath)
      ELSE s2

\* the attempts suspended in a guard or in a component load
InFlight(s) ==
  {s.conts[k].att : k \in {j \in 1..Len(s.conts) : s.conts[j].used = 0}}
    \cup {s.loads[i].att : i \in {j \in 1..Len(s.loads) : ~s.loads[j].settled}}

\* a pending route is created while other navigations are in flight
Overlapped(s) ==
  [a \in 1..Len(s.atts) |->
     IF a \in InFlight(s) THEN [s.atts[a] EXCEPT !.overlap = TRUE]
     ELSE s.atts[a]]

\* What is recorded of the navigation attempt that creates a pending
\* route: the call whose callbacks it carries, the raw location it was
\* normalized from, the attempt whose guard redirected to it, the guard
\* list it meets, the guards invoked for it and how many have continued,
\* the times its chain has aborted, redirected and committed, the times
\* its route was given to the navigation-changed listeners, whether
\* another navigation was in flight with it, and the redirect its route
\* declares.
NewAttempt(s, call, pending) ==
  [call |-> call, raw |-> s.raw, from |-> s.from,
   fullPath |-> pending.fullPath, guards |-> s.guards, invoked |-> <<>>,
   continued |-> 0, aborts |-> 0, redirects |-> 0, commits |-> 0,
   changed |-> 0, overlap |-> InFlight(s) # {},
   redirect |-> pending.redirect]


\* Router.push (replace = FALSE) and Router.replace (replace = TRUE);
\* depth counts the push frames of this chain of redirects
push(s, rawLocation, replace, call, depth) ==
  IF depth > MaxRedirects THEN [s EXCEPT !.exc = TRUE]
  ELSE
    LET location == rawLocationToLocation(rawLocation, replace)
    IN  IF ~location.ok
        THEN notifyOnError(onAbort(s, call), call, "invalid location")
        ELSE resolveRoute([s EXCEPT !.raw = rawLocation], location, call,
                          depth)

resolveRoute(s, loc, call, depth) ==
  LET location ==
        IF Len(Basename) > 0
        THEN [loc EXCEPT !.path = trimPrefix(@, Basename)]
        ELSE loc
      byName == location.name # NoName /\ location.name # ""
      match == findRouteByName(location.name, routeConfigs.level)
      generated == IF byName /\ match # 0
                   THEN generator(Node(match), location.params)
                   ELSE [ok |-> FALSE, path |-> <<>>]
      byPath == matchRoute(location.path, routeConfigs.level, <<>>)
  IN  IF byName /\ match = 0
      THEN notifyOnError(onAbort(s, call), call, "no matching route (name)")
      ELSE IF byName /\ ~generated.ok
      THEN notifyOnError(onAbort(s, call), call, "invalid route parameters")
      ELSE IF ~byName /\ ~byPath.ok
      THEN notifyOnError(onAbort(s, call), call, "no matching route (path)")
      ELSE
        LET matches == IF byName
                       THEN Reverse(namedRecords(match, location.params))
                       ELSE byPath.matches
            resolved == IF byName
                        THEN [location EXCEPT !.path = generated.path]
                        ELSE location
            att == Len(s.atts) + 1
            pending == [att |-> att] @@ createRoute(resolved, matches)
            s1 == Emit([s EXCEPT
                          !.pend = pending,
                          !.atts = Append(Overlapped(s),
                                          NewAttempt(s, call, pending))],
                       [e |-> "pending", att |-> att])
        IN  IF pending.redirect.kind # "null"
            THEN resolveRedirect(s1, pending.redirect, call, depth)
            ELSE IF s1.cur # Null /\ pending.fullPath = s1.cur.fullPath
            THEN onComplete(Emit([s1 EXCEPT !.pend = Null],
                                 [e |-> "same", att |-> att]), call)
            ELSE resolveNavigationGuard(
                   notifyOnBeforeNavigation(s1, cloneRoute(s1.cur),
                                            cloneRoute(pending)),
                   0, call, att)

\* the redirect discards the pending route and navigates nowhere
resolveRedirectStops(s, redirect, call, depth) ==
  Emit([s EXCEPT !.pend = Null], [e |-> "redirect"])

\* Router.resolveRedirect; an external URL ends the page
\* (window.location.replace)
resolveRedirect(s, redirect, call, depth) ==
  IF redirect.kind = "str" /\ hasPrefix(redirect.path, <<"h", "t", "t", "p">>)
  THEN Emit(s, [e |-> "window.location.replace", url |-> redirect.path])
  ELSE push(Emit([s EXCEPT !.pend = Null], [e |-> "redirect"]),
            redirect, FALSE, call, depth + 1)

(***************************************************************************)
(* The value a guard passes to next.                                       *)
(***************************************************************************)
Continue == [kind |-> "undefined", raw |-> NoRedirect]
NextTrue == [kind |-> "true", raw |-> NoRedirect]
NextFalse == [kind |-> "false", raw |-> NoRedirect]
NextError == [kind |-> "Error", raw |-> NoRedirect]
NextNumber == [kind |-> "number", raw |-> NoRedirect]
NextTo(raw) == [kind |-> "location", raw |-> raw]

\* the next closure redirects without dropping the pending route
guardNextKeepsPending(s, k, v) ==
  LET c == s.conts[k]
      s0 == [s EXCEPT !.conts[k].used = @ + 1]
      aborted == [s0 EXCEPT !.atts[c.att].aborts = @ + 1]
  IN  IF v.kind = "undefined"
      THEN resolveNavigationGuard(
             [s0 EXCEPT !.conts[k].index = @ + 1,
                        !.atts[c.att].continued = @ + 1],
             c.index + 1, c.call, c.att)
      ELSE IF v.kind = "false" THEN abort(aborted, c.call, FALSE, "")
      ELSE IF v.kind = "Error"
      THEN abort(aborted, c.call, TRUE, "navigation guard error")
      ELSE IF v.kind = "location"
      THEN push(Emit([s0 EXCEPT !.from = c.att,
                                !.atts[c.att].redirects = @ + 1],
                     [e |-> "redirect"]),
                v.raw, FALSE, c.call, 0)
      ELSE abort(aborted, c.call, TRUE, "unexpected next(val) value")

\* the next closure invokes onAbort before it redirects
guardNextAbortsOnRedirect(s, k, v) ==
  LET c == s.conts[k]
      s0 == [s EXCEPT !.conts[k].used = @ + 1]
      aborted == [s0 EXCEPT !.atts[c.att].aborts = @ + 1]
  IN  IF v.kind = "undefined"
      THEN resolveNavigationGuard(
             [s0 EXCEPT !.conts[k].index = @ + 1,
                        !.atts[c.att].continued = @ + 1],
             c.index + 1, c.call, c.att)
      ELSE IF v.kind = "false" THEN abort(aborted, c.call, FALSE, "")
      ELSE IF v.kind = "Error"
      THEN abort(aborted, c.call, TRUE, "navigation guard error")
      ELSE IF v.kind = "location"
      THEN push(Emit(onAbort([s0 EXCEPT !.pend = Null, !.from = c.att,
                                        !.atts[c.att].redirects = @ + 1],
                             c.call),
                     [e |-> "redirect"]),
                v.raw, FALSE, c.call, 0)
      ELSE abort(aborted, c.call, TRUE, "unexpected next(val) value")

\* the next closure of Router.resolveNavigationGuard, called with v on
\* the closure conts[k]
guardNext(s, k, v) ==
  LET c == s.conts[k]
      s0 == [s EXCEPT !.conts[k].used = @ + 1]
      aborted == [s0 EXCEPT !.atts[c.att].aborts = @ + 1]
  IN  IF v.kind = "undefined"
      THEN resolveNavigationGuard(
             [s0 EXCEPT !.conts[k].index = @ + 1,
                        !.atts[c.att].continued = @ + 1],
             c.index + 1, c.call, c.att)
      ELSE IF v.kind = "false" THEN abort(aborted, c.call, FALSE, "")
      ELSE IF v.kind = "Error"
      THEN abort(aborted, c.call, TRUE, "navigation guard error")
      ELSE IF v.kind = "location"
      THEN push(Emit([s0 EXCEPT !.pend = Null, !.from = c.att,
                                !.atts[c.att].redirects = @ + 1],
                     [e |-> "redirect"]),
                v.raw, FALSE, c.call, 0)
      ELSE abort(aborted, c.call, TRUE, "unexpected next(val) value")


(***************************************************************************)
(* What the application, the guards and the browser do.                    *)
(***************************************************************************)
\* the raw locations passed to push and replace
RawLocations ==
  {Str(<<"/", "a">>),
   Str(<<"/", "b">>),
   Str(<<"/", "r">>),
   Str(<<>>),
   Str(<<"/", "x">>),
   Str(<<"/", "a", "?", "?">>),
   Named("USER", [n \in {"id"} |-> <<"5">>]),
   Named("USER", <<>>),
   Named("NONE", <<>>),
   NoRedirect}

\* the values guards pass to next
NextValues ==
  {Continue, NextTrue, NextFalse, NextError, NextNumber,
   NextTo(Str(<<"/", "a">>)),
   NextTo(Str(<<"/", "x">>)),
   NextTo(Named("USER", [n \in {"id"} |-> <<"5">>]))}

\* the raw locations passed to replace
ReplaceLocations ==
  {Str(<<"/", "a">>),
   Named("USER", [n \in {"id"} |-> <<"5">>])}

\* the raw locations and next values of guards that act while they execute
SyncLocations ==
  {Str(<<"/", "a">>),
   Str(<<"/">>),
   Str(<<"/", "x">>)}

SyncNextValues ==
  {Continue, NextFalse,
   NextTo(Str(<<"/", "a">>))}

AsyncIds == {id \in 1..Len(routeConfigs.nodes) : Node(id).async}

NewCall(cb) == [cb |-> cb, complete |-> 0, abort |-> 0, thrown |-> FALSE]

\* the push/replace calls whose frames are on the JavaScript stack
OnStack == {stack[i].call : i \in 1..Len(stack)} \ {0}

\* the URL is made by navigating to the location
routeURLNavigates(s, rawLocation) == push(s, rawLocation, FALSE, 0, 0)

\* Router.routeURL: it returns the URL of a named route or throws.  In a
\* rawLocation of the model params and query are objects and hash is a
\* string whenever they are given.
routeURL(s, rawLocation) ==
  LET Throw(why) == Emit([s EXCEPT !.exc = TRUE],
                         [e |-> "throw", why |-> why])
      match == findRouteByName(rawLocation.name, routeConfigs.level)
      generated == generator(Node(match), rawLocation.params)
      hash == IF rawLocation.hash = NoStr THEN <<>> ELSE rawLocation.hash
      url == fullURL(generated.path, rawLocation.query, hash)
  IN  IF rawLocation.kind = "null" THEN Throw("invalid rawLocation")
      ELSE IF rawLocation.kind = "str" \/ rawLocation.name = NoName
      THEN Throw("missing or invalid route name")
      ELSE IF match = 0 THEN Throw("no matching route (name)")
      ELSE IF ~generated.ok THEN Throw("invalid route parameters")
      ELSE Emit(s, [e |-> "return",
                    url |-> IF Len(Basename) > 0
                            THEN joinPath(Basename, url) ELSE url])

\* The end of a step: s is the state the router's code has produced, call
\* the push/replace call the step has made (0 when it made none).  An
\* exception unwinds the whole stack, through every push frame on it.  A
\* guard the step has invoked either stays executing on top of the stack
\* (sync), or has returned without calling anything, keeping its next
\* closure for later.
Done(s, op, call, k, v, sync) ==
  /\ currentRoute' = s.cur
  /\ pendingRoute' = s.pend
  /\ navigationGuards' = s.guards
  /\ asyncViews' = s.views
  /\ history' = s.hist
  /\ conts' = s.conts
  /\ loads' = s.loads
  /\ atts' = s.atts
  /\ calls' = IF s.exc
              THEN [c \in DOMAIN s.calls |->
                      IF c \in OnStack \cup {call}
                      THEN [s.calls[c] EXCEPT !.thrown = TRUE]
                      ELSE s.calls[c]]
              ELSE s.calls
  /\ stack' = IF s.exc THEN <<>>
              ELSE IF s.cont # 0 /\ sync
              THEN Append(stack, [cont |-> s.cont, call |-> call])
              ELSE stack
  /\ answered' = IF op = "next" THEN answered + 1 ELSE answered
  /\ last' = [op |-> op, call |-> call, k |-> k, v |-> v, ev |-> s.ev,
              exc |-> s.exc]

\* the router constructed with the route prefabs
InitWith(prefabs) ==
  /\ routeConfigs = preprocessRoutes(<<>>, prefabs, 0)
  /\ currentRoute = Null
  /\ pendingRoute = Null
  /\ navigationGuards = <<>>
  /\ nextKey = 0
  /\ asyncViews = {}
  /\ history = [entries |-> <<parsePath(InitialURL)>>, index |-> 1]
  /\ components = [id \in AsyncIds |-> "pending"]
  /\ conts = <<>>
  /\ loads = <<>>
  /\ stack = <<>>
  /\ started = FALSE
  /\ calls = <<>>
  /\ atts = <<>>
  /\ guardCallbacks = <<>>
  /\ listeners = [onBeforeNavigation |-> <<>>, onNavigationChanged |-> <<>>,
                  onError |-> <<>>, issued |-> <<>>]
  /\ answered = 0
  /\ last = [op |-> "init", call |-> 0, k |-> 0, v |-> Continue, ev |-> <<>>,
             exc |-> FALSE]

Init == InitWith(RoutePrefabs)

\* the same router with a catch-all route after the others
InitWildcard == InitWith(WildcardPrefabs)

\* router.push(rawLocation, onComplete, onAbort), by the application or by
\* the guard that is executing
Push(rawLocation, sync) ==
  /\ Len(atts) < MaxAttempts
  /\ LET call == Len(calls) + 1
         s == [State EXCEPT !.calls = Append(@, NewCall(TRUE))]
     IN  Done(push(s, rawLocation, FALSE, call, 0), "push", call, 0,
              NextTo(rawLocation), sync)
  /\ UNCHANGED <<routeConfigs, guardCallbacks, listeners, nextKey, components, started>>

\* router.routeURL(rawLocation)
RouteURL(rawLocation) ==
  /\ stack = <<>>
  /\ Done(routeURL(State, rawLocation), "routeURL", 0, 0,
          NextTo(rawLocation), FALSE)
  /\ UNCHANGED <<routeConfigs, guardCallbacks, listeners, nextKey, components, started>>

\* router.replace(rawLocation, onComplete, onAbort)
Replace(rawLocation, sync) ==
  /\ Len(atts) < MaxAttempts
  /\ LET call == Len(calls) + 1
         s == [State EXCEPT !.calls = Append(@, NewCall(TRUE))]
     IN  Done(push(s, rawLocation, TRUE, call, 0), "replace", call, 0,
              NextTo(rawLocation), sync)
  /\ UNCHANGED <<routeConfigs, guardCallbacks, listeners, nextKey, components, started>>

\* router.start()
Start(sync) ==
  /\ ~started
  /\ stack = <<>>
  /\ Len(atts) < MaxAttempts
  /\ started' = TRUE
  /\ LET call == Len(calls) + 1
         s == [State EXCEPT !.calls = Append(@, NewCall(FALSE))]
     IN  Done(onHistoryChange(s, historyLocation(s), "POP", call),
              "start", call, 0, Continue, sync)
  /\ UNCHANGED <<routeConfigs, guardCallbacks, listeners, nextKey, components>>

\* the browser moves n entries in the history (back, forward, router.go)
\* and the history module notifies its listener with POP
Pop(n, sync) ==
  /\ stack = <<>>
  /\ Len(atts) < MaxAttempts
  /\ history.index + n \in 1..Len(history.entries)
  /\ LET call == Len(calls) + 1
         s == [State EXCEPT !.calls = Append(@, NewCall(FALSE)),
                            !.hist.index = @ + n]
     IN  Done(onHistoryChange(s, historyLocation(s), "POP", call),
              "pop", call, n, Continue, sync)
  /\ UNCHANGED <<routeConfigs, guardCallbacks, listeners, nextKey, components, started>>

\* a guard calls the next closure it was handed: synchronously, while it
\* executes, or later.  Every closure is called at most once.
Next_(k, v, sync) ==
  /\ k \in 1..Len(conts)
  /\ conts[k].used = 0
  /\ IF stack = <<>> THEN TRUE ELSE stack[Len(stack)].cont = k
  /\ v.kind = "location" => Len(atts) < MaxAttempts
  /\ Done(guardNext(State, k, v), "next", 0, k, v, sync)
  /\ UNCHANGED <<routeConfigs, guardCallbacks, listeners, nextKey, components, started>>

\* the guard that is executing returns
Return ==
  /\ stack # <<>>
  /\ stack' = SubSeq(stack, 1, Len(stack) - 1)
  /\ last' = [op |-> "return", call |-> 0, k |-> stack[Len(stack)].cont,
              v |-> Continue, ev |-> <<>>, exc |-> FALSE]
  /\ UNCHANGED <<answered, routeConfigs, guardCallbacks, listeners, currentRoute, pendingRoute, navigationGuards,
                 nextKey, asyncViews, history, components, conts, loads,
                 started, calls, atts>>

\* the first guard is removed, whatever the key
removeNavigationGuardFirst(guards, key) ==
  IF guards = <<>> THEN guards ELSE Tail(guards)

\* Router.removeNavigationGuard
removeNavigationGuard(guards, key) ==
  LET i == IndexOf(guards, key)
  IN  IF i = 0 THEN guards
      ELSE SubSeq(guards, 1, i - 1) \o SubSeq(guards, i + 1, Len(guards))

\* router.navigationGuard(guard): the guard is stored under a new Symbol
NavigationGuard(guard) ==
  /\ stack = <<>>
  /\ nextKey' = nextKey + 1
  /\ navigationGuards' = Append(navigationGuards, nextKey + 1)
  /\ guardCallbacks' = Append(guardCallbacks, guard)
  /\ last' = [op |-> "register", call |-> 0, k |-> nextKey + 1,
              v |-> Continue, ev |-> <<>>, exc |-> FALSE]
  /\ UNCHANGED <<answered, routeConfigs, listeners, currentRoute, pendingRoute,
                 asyncViews, history, components,
                 conts, loads, stack, started, calls, atts>>

\* the application registers a guard
Register ==
  /\ nextKey < MaxGuards
  /\ NavigationGuard(1)

\* the unregister function navigationGuard returned for key; the step
\* says whether an entry was spliced out
Unregister(key) ==
  /\ stack = <<>>
  /\ key \in 1..nextKey
  /\ navigationGuards' = removeNavigationGuard(navigationGuards, key)
  /\ last' = [op |-> "unregister", call |-> 0, k |-> key, v |-> Continue,
              ev |-> IF navigationGuards' # navigationGuards
                     THEN <<[e |-> "splice"]>> ELSE <<>>,
              exc |-> FALSE]
  /\ UNCHANGED <<answered, routeConfigs, guardCallbacks, listeners, currentRoute,
                 pendingRoute, nextKey,
                 asyncViews, history, components, conts, loads, stack,
                 started, calls, atts>>

\* the names of the Maps of this._listeners
ListenerKinds == {"onBeforeNavigation", "onNavigationChanged", "onError"}

\* Map.prototype.set with a key the Map does not hold
MapSet(map, key, callback) ==
  Append(map, [key |-> key, callback |-> callback])

\* Map.prototype.delete
MapDelete(map, key) ==
  LET kept == {i \in 1..Len(map) : map[i].key # key}
      Nth(n) == CHOOSE i \in kept : Cardinality({j \in kept : j < i}) = n - 1
  IN  [n \in 1..Cardinality(kept) |-> map[Nth(n)]]

\* router.onBeforeNavigation(callback), router.onNavigationChanged(callback)
\* and router.onError(callback): the callback is stored under a new Symbol
On(kind, callback) ==
  /\ stack = <<>>
  /\ LET key == Len(listeners.issued) + 1
     IN  /\ listeners' = [listeners EXCEPT
                           ![kind] = MapSet(@, key, callback),
                           !.issued = Append(@, kind)]
         /\ last' = [op |-> "on", call |-> 0, k |-> key, v |-> Continue,
                     ev |-> <<>>, exc |-> FALSE]
  /\ UNCHANGED <<answered, routeConfigs, guardCallbacks, currentRoute, pendingRoute,
                 navigationGuards, nextKey, asyncViews, history, components,
                 conts, loads, stack, started, calls, atts>>

\* the unregister function one of these three returned for key
Off(key) ==
  /\ stack = <<>>
  /\ key \in 1..Len(listeners.issued)
  /\ listeners' = [listeners EXCEPT
                     ![listeners.issued[key]] = MapDelete(@, key)]
  /\ last' = [op |-> "off", call |-> 0, k |-> key, v |-> Continue,
              ev |-> IF listeners' # listeners
                     THEN <<[e |-> "delete"]>> ELSE <<>>,
              exc |-> FALSE]
  /\ UNCHANGED <<answered, routeConfigs, guardCallbacks, currentRoute, pendingRoute,
                 navigationGuards, nextKey, asyncViews, history, components,
                 conts, loads, stack, started, calls, atts>>

\* the promise of an async component settles; when nothing waits for it,
\* the moment it settles cannot be observed, so it settles only then
ComponentSettles(id, ok) ==
  /\ stack = <<>>
  /\ id \in AsyncIds
  /\ components[id] = "pending"
  /\ \E i \in 1..Len(loads) : ~loads[i].settled /\ id \in loads[i].ids
  /\ components' = [components EXCEPT
                      ![id] = IF ok THEN "resolved" ELSE "rejected"]
  /\ last' = [op |-> "component", call |-> 0, k |-> id, v |-> Continue,
              ev |-> <<>>, exc |-> FALSE]
  /\ UNCHANGED <<answered, routeConfigs, guardCallbacks, listeners, currentRoute, pendingRoute, navigationGuards,
                 nextKey, asyncViews, history, conts, loads, stack, started,
                 calls, atts>>

\* the Promise.all of Router.finishNavigationChange settles: its then
\* callback fills the cache and runs afterResolved, its catch callback
\* handles a rejected component and whatever the then callback throws
LoadSettled(i) ==
  /\ stack = <<>>
  /\ i \in 1..Len(loads)
  /\ ~loads[i].settled
  /\ IF \E id \in loads[i].ids : components[id] = "rejected" THEN TRUE
     ELSE \A id \in loads[i].ids : components[id] = "resolved"
  /\ LET l == loads[i]
         s0 == [State EXCEPT !.loads[i].settled = TRUE]
         then == afterResolved([s0 EXCEPT !.views = @ \cup l.ids],
                               l.call, l.att)
         catch(s) == onAbort(notifyOnError([s EXCEPT !.exc = FALSE], l.call,
                                           "failed to load async"), l.call)
     IN  IF \E id \in l.ids : components[id] = "rejected"
         THEN Done(catch(s0), "load", 0, i, Continue, FALSE)
         ELSE IF then.exc THEN Done(catch(then), "load", 0, i, Continue, FALSE)
         ELSE Done(then, "load", 0, i, Continue, FALSE)
  /\ UNCHANGED <<routeConfigs, guardCallbacks, listeners, nextKey, components, started>>

\* a guard holds a next closure it has not called
InChain == \E k \in 1..Len(conts) : conts[k].used = 0

\* The application navigates, guards answer after they have returned, and
\* guards are registered only while no guard holds an uncalled closure.
Next ==
  \/ \E rawLocation \in RawLocations :
        Len(calls) < MaxCalls /\ Push(rawLocation, FALSE)
  \/ \E rawLocation \in ReplaceLocations :
        Len(calls) < MaxCalls /\ Replace(rawLocation, FALSE)
  \/ Len(calls) < MaxCalls /\ Start(FALSE)
  \/ \E n \in {-1, 1} : Len(calls) < MaxCalls /\ Pop(n, FALSE)
  \/ \E k \in 1..Len(conts), v \in NextValues : Next_(k, v, FALSE)
  \/ ~InChain /\ Register
  \/ \E id \in AsyncIds, ok \in BOOLEAN : ComponentSettles(id, ok)
  \/ \E i \in 1..Len(loads) : LoadSettled(i)

Spec == Init /\ [][Next]_vars

\* Guards also act while they execute: they call their next closure or
\* router.push before they return.
NextSync ==
  \/ \E rawLocation \in SyncLocations, sync \in BOOLEAN :
        Len(calls) < MaxSyncCalls /\ Push(rawLocation, sync)
  \/ \E sync \in BOOLEAN : Len(calls) < MaxSyncCalls /\ Start(sync)
  \/ \E k \in 1..Len(conts), v \in SyncNextValues, sync \in BOOLEAN :
        Next_(k, v, sync)
  \/ Return
  \/ calls = <<>> /\ Register

SpecSync == Init /\ [][NextSync]_vars

\* the router with the catch-all route
SpecWildcard == InitWildcard /\ [][Next]_vars

\* push calls made to the router whose routes load their components
MaxLoadCalls == 3

\* routes with asynchronous components: one alone, and one nested in
\* another
LoadPrefabs ==
  <<Prefab(<<"/">>, "HOME", NoRedirect, FALSE, <<>>),
    Prefab(<<"/", "b">>, "B", NoRedirect, TRUE, <<>>),
    Prefab(<<"/", "p">>, "P", NoRedirect, TRUE,
           <<Prefab(<<"/", "c">>, "C", NoRedirect, TRUE, <<>>)>>)>>

LoadLocations ==
  {Str(<<"/">>), Str(<<"/", "b">>), Str(<<"/", "p", "/", "c">>)}

InitLoad == InitWith(LoadPrefabs)

\* The application pushes, guards registered beforehand continue, and the
\* components resolve or reject.
NextLoad ==
  \/ \E rawLocation \in LoadLocations :
        Len(calls) < MaxLoadCalls /\ Push(rawLocation, FALSE)
  \/ \E k \in 1..Len(conts) : Next_(k, Continue, FALSE)
  \/ calls = <<>> /\ Register
  \/ \E id \in AsyncIds, ok \in BOOLEAN : ComponentSettles(id, ok)
  \/ \E i \in 1..Len(loads) : LoadSettled(i)

SpecLoad == InitLoad /\ [][NextLoad]_vars

\* the longest path resolved against the trees of routes
MaxPathLen == 6

\* the paths pushed: every string of these characters up to that length
PathAlphabet == {"/", "u", "a", "5"}

Paths == UNION {[1..n -> PathAlphabet] : n \in 0..MaxPathLen}

\* Trees of routes in which matching backtracks: a parent that matches
\* while none of its children does, followed by siblings that match; a
\* nested parent; and siblings of which several match.
MatchTrees ==
  {<<Prefab(<<"/", "u">>, NoName, NoRedirect, FALSE,
            <<Prefab(<<"/", ":id(\\d+)">>, "USER", NoRedirect, FALSE, <<>>)>>),
     Prefab(<<"/", "u">>, NoName, NoRedirect, FALSE,
            <<Prefab(<<"/", ":slug">>, "SLUG", NoRedirect, FALSE, <<>>)>>),
     Prefab(<<"*">>, "ANY", NoRedirect, FALSE, <<>>)>>,
   <<Prefab(<<"/">>, "HOME", NoRedirect, FALSE, <<>>),
     Prefab(<<"/", "a">>, "A", NoRedirect, FALSE, <<>>),
     Prefab(<<"/", ":slug">>, "S", NoRedirect, FALSE, <<>>),
     Prefab(<<"/", "u">>, "U", NoRedirect, FALSE, <<>>)>>,
   <<Prefab(<<"/", "u">>, NoName, NoRedirect, FALSE,
            <<Prefab(<<"/", "a">>, NoName, NoRedirect, FALSE,
                     <<Prefab(<<"/", ":id(\\d+)">>, "X", NoRedirect, FALSE,
                              <<>>)>>),
              Prefab(<<"/", ":slug">>, "Y", NoRedirect, FALSE, <<>>)>>),
     Prefab(<<"/", ":slug">>, "Z", NoRedirect, FALSE, <<>>)>>}

InitMatch == \E prefabs \in MatchTrees : InitWith(prefabs)

\* The application pushes one path.
NextMatch ==
  \E path \in Paths : calls = <<>> /\ Push(Str(path), FALSE)

SpecMatch == InitMatch /\ [][NextMatch]_vars

\* A tree of routes whose named routes declare parameters of their own
\* and inherit those of their parent's path.
NamedPrefabs ==
  <<Prefab(<<"/">>, "HOME", NoRedirect, FALSE, <<>>),
    Prefab(<<"/", ":slug">>, "P", NoRedirect, FALSE,
           <<Prefab(<<"/", ":id(\\d+)">>, "X", NoRedirect, FALSE, <<>>),
             Prefab(<<"/", "a">>, "Y", NoRedirect, FALSE, <<>>)>>),
    Prefab(<<"*">>, "ANY", NoRedirect, FALSE, <<>>)>>

\* the names and the params of the locations pushed
LocationNames == {"HOME", "P", "X", "Y", "ANY", "NONE"}

ParamNames == {"slug", "id", "q"}

ParamValues == {<<"a">>, <<"5">>, <<>>, Undef}

LocationParams == UNION {[keys -> ParamValues] : keys \in SUBSET ParamNames}

InitNamed == InitWith(NamedPrefabs)

\* the paths pushed against the tree of the named routes
NamedPaths ==
  {<<"/", "a">>, <<"/", "a", "/", "5">>, <<"/", "5", "/", "a">>,
   <<"/", "a", "/", "a", "/", "a">>}

\* The application pushes one named location, or one path.
NextNamed ==
  \/ \E name \in LocationNames, params \in LocationParams :
        calls = <<>> /\ Push(Named(name, params), FALSE)
  \/ \E path \in NamedPaths : calls = <<>> /\ Push(Str(path), FALSE)

SpecNamed == InitNamed /\ [][NextNamed]_vars

\* the locations the application navigates to and asks the URL of
URLLocations ==
  {Named("HOME", <<>>),
   Named("X", [n \in {"slug", "id"} |-> IF n = "id" THEN <<"5">> ELSE <<"a">>]),
   [Named("Y", [n \in {"slug"} |-> <<"u">>])
      EXCEPT !.query = <<[k |-> <<"q">>, v |-> <<"1">>]>>, !.hash = <<"h">>],
   Named("X", [n \in {"slug", "id"} |-> <<"a">>]),
   Named("NONE", <<>>)}

\* The application registers guards, navigates, lets the guards continue
\* or refuse, and asks for URLs in between.
NextURL ==
  \/ calls = <<>> /\ Register
  \/ \E rawLocation \in URLLocations :
        Len(calls) < MaxCalls /\ Push(rawLocation, FALSE)
  \/ \E k \in 1..Len(conts), v \in {Continue, NextFalse} : Next_(k, v, FALSE)
  \/ \E rawLocation \in URLLocations \cup {NoRedirect, Str(<<"/", "a">>)} :
        RouteURL(rawLocation)

SpecURL == InitNamed /\ [][NextURL]_vars

\* the guards and the listeners an application registers
MaxRegistrations == 3

MaxListeners == 2

\* the callback functions the application has
Callbacks == {1, 2}

\* The application registers guards and listeners, some of them with the
\* same callback, and calls the functions the registrations returned, any
\* number of times.
NextRegistry ==
  \/ \E guard \in Callbacks :
        nextKey < MaxRegistrations /\ NavigationGuard(guard)
  \/ \E key \in 1..nextKey : Unregister(key)
  \/ \E kind \in ListenerKinds, callback \in Callbacks :
        Len(listeners.issued) < MaxListeners /\ On(kind, callback)
  \/ \E key \in 1..Len(listeners.issued) : Off(key)

SpecRegistry == Init /\ [][NextRegistry]_vars

\* a prefab createRouteConfig rejects (its path is not a string), with a
\* valid child
InvalidPrefab ==
  Prefab(NoStr, "BAD", NoRedirect, FALSE,
         <<Prefab(<<"/", "c">>, "C", NoRedirect, FALSE, <<>>)>>)

\* the children declared for a parent of the trees: valid ones, with and
\* without a leading '/', with an empty path, and invalid ones
ChildPrefabs ==
  {<<Prefab(<<"/", ":id(\\d+)">>, "USER", NoRedirect, FALSE, <<>>)>>,
   <<InvalidPrefab>>,
   <<InvalidPrefab, Prefab(<<>>, "E", NoRedirect, FALSE, <<>>)>>,
   <<Prefab(<<"b">>, "B", NoRedirect, FALSE, <<>>), InvalidPrefab,
     Prefab(<<"/", "a">>, "UA", NoRedirect, FALSE, <<>>)>>}

\* the prefabs declared at the root of the trees
RootPrefabs ==
  {Prefab(<<"/", "a">>, "A", NoRedirect, FALSE, <<>>),
   Prefab(<<"a">>, "NS", NoRedirect, FALSE, <<>>),
   Prefab(<<"*">>, "ANY", NoRedirect, FALSE, <<>>),
   InvalidPrefab}
  \cup {Prefab(<<"/", "u">>, "U", NoRedirect, FALSE, children) :
          children \in ChildPrefabs}

\* the number of prefabs declared at the root of a tree
MaxRoots == 3

PrefabTrees == UNION {[1..n -> RootPrefabs] : n \in 1..MaxRoots}

\* the paths pushed against the trees
TreePaths ==
  {<<"/">>, <<"/", "a">>, <<"/", "a", "/", "a">>, <<"/", "u">>,
   <<"/", "u", "/", "5">>, <<"/", "u", "/", "b">>, <<"/", "u", "/", "a">>,
   <<"/", "u", "/", "u", "/", "u">>, <<"/", "c">>}

InitTree == \E prefabs \in PrefabTrees : InitWith(prefabs)

\* The application pushes one path.
NextTree ==
  \E path \in TreePaths : calls = <<>> /\ Push(Str(path), FALSE)

SpecTree == InitTree /\ [][NextTree]_vars

\* the longest raw path given as a string
MaxURLLen == 5

\* the characters of the raw paths
URLAlphabet == {"/", "a", "?", "#", "=", "&"}

RawPaths == UNION {[1..n -> URLAlphabet] : n \in 0..MaxURLLen}

\* raw locations given as objects: a path with or without a query string
\* and a fragment, and the caller's own query and hash
RawObjects ==
  {[kind |-> "obj", path |-> path, name |-> NoName, hash |-> hash,
    params |-> <<>>, query |-> query] :
     path \in {<<"/", "a">>,
               <<"/", "a", "?", "k", "=", "1">>,
               <<"/", "a", "?", "j", "=", "1", "&", "k", "=", "1", "#", "g">>,
               <<"/", "a", "#", "g">>,
               <<"a", "?", "k">>},
     hash \in {NoStr, <<"h">>, <<"#", "h">>},
     query \in {<<>>,
                <<[k |-> <<"k">>, v |-> <<"2">>]>>,
                <<[k |-> <<"m">>, v |-> <<"3">>],
                  [k |-> <<"k">>, v |-> <<"2">>]>>}}

\* The application pushes one raw location, or replaces with one.
NextLocation ==
  \/ \E path \in RawPaths : calls = <<>> /\ Push(Str(path), FALSE)
  \/ \E path \in RawPaths : calls = <<>> /\ Replace(Str(path), FALSE)
  \/ \E rawLocation \in RawObjects :
        calls = <<>> /\ Push(rawLocation, FALSE)
  \/ \E rawLocation \in RawObjects :
        calls = <<>> /\ Replace(rawLocation, FALSE)

SpecLocation == InitWildcard /\ [][NextLocation]_vars

(***************************************************************************)
(* The properties.  They are stated on the record of the step just taken   *)
(* (last), on what is recorded of every attempt (atts) and call (calls),   *)
(* and, where a step is compared with the state before it, as properties   *)
(* of the steps.  Guards call every next closure at most once.             *)
(***************************************************************************)
\* the positions of the events of this kind in the step just taken
EventsOf(kind) == {i \in 1..Len(last.ev) : last.ev[i].e = kind}

\* the step just taken has no event of these kinds
NoEvent(kinds) == \A i \in 1..Len(last.ev) : last.ev[i].e \notin kinds

\* C1: for every attempt, the guards invoked are the first guards of the
\* registered list, in its order and each once; a guard is invoked only
\* after every guard before it has continued; and the chain reaches the
\* component load and the commit only after all N guards have continued.
C1_GuardsInRegistrationOrder ==
  \A a \in 1..Len(atts) :
    LET t == atts[a]
    IN  /\ Len(t.invoked) <= Len(t.guards)
        /\ t.invoked = SubSeq(t.guards, 1, Len(t.invoked))
        /\ t.continued <= Len(t.invoked)
        /\ Len(t.invoked) <= t.continued + 1
        /\ t.commits > 0 => t.continued = Len(t.guards)
        /\ \A i \in 1..Len(loads) :
             loads[i].att = a => t.continued = Len(t.guards)

\* an attempt has met two guards, both have continued and it has committed
C1_Witness ==
  \E a \in 1..Len(atts) :
    /\ Len(atts[a].guards) = 2
    /\ atts[a].invoked = atts[a].guards
    /\ atts[a].continued = 2
    /\ atts[a].commits = 1

C3_NextTrueContinues ==
  [][(last'.op = "next" /\ last'.v = NextTrue) =>
       LET r == guardNext(State, last'.k, Continue)
       IN  /\ last'.ev = r.ev
           /\ currentRoute' = r.cur
           /\ pendingRoute' = r.pend
           /\ history' = r.hist
           /\ atts' = r.atts]_vars

\* the full path of the targets guards redirect to
TargetFullPath(raw) ==
  IF raw.kind = "str" THEN raw.path ELSE <<"/", "u", "/", "5">>

C5_NextErrorAborts ==
  [][(last'.op = "next" /\ last'.v \in {NextError, NextNumber}) =>
       LET r == guardNext(State, last'.k, NextFalse)
           notError(e) == e.e # "error"
       IN  /\ SelectSeq(last'.ev, notError) = r.ev
           /\ Len(last'.ev) = Len(r.ev) + 1
           /\ currentRoute' = r.cur
           /\ pendingRoute' = r.pend
           /\ history' = r.hist
           /\ calls' = r.calls
           /\ atts' = r.atts
           /\ conts' = r.conts
           /\ loads' = r.loads
           /\ asyncViews' = r.views
           /\ navigationGuards' = r.guards]_vars

\* a guard has just called next with a number: one error event, the abort
\* callback invoked, the pending route cleared
C5_Witness ==
  /\ last.op = "next"
  /\ last.v = NextNumber
  /\ Cardinality(EventsOf("error")) = 1
  /\ calls[conts[last.k].call].abort = 1
  /\ pendingRoute = Null

\* C6: a step in which a guard aborts while a current route exists ends
\* with the history's full URL equal to currentRoute.fullPath: by one push
\* of currentRoute.fullPath when they differed, with the history untouched
\* when they were equal.
C6_AbortResyncsHistory ==
  [][(/\ last'.op = "next"
      /\ last'.v \in {NextFalse, NextError}
      /\ currentRoute # Null) =>
       /\ historyFullURL(history'.entries[history'.index])
            = currentRoute'.fullPath
       /\ IF historyFullURL(historyLocation(State)) # currentRoute.fullPath
          THEN history' = historyPush(State, currentRoute.fullPath).hist
          ELSE history' = history]_vars

\* C7: a step that creates a pending route without redirect whose fullPath
\* is currentRoute.fullPath takes the short-circuit, and a step that takes
\* it does nothing after creating that pending route but clear it and
\* invoke the completion callback: currentRoute, the history entries, the
\* component cache and the loads stay as they were, no guard is invoked,
\* no listener notified.
C7_SameLocationShortCircuit ==
  [][/\ \A i \in 1..Len(last'.ev) :
          (/\ last'.ev[i].e = "pending"
           /\ currentRoute # Null
           /\ atts'[last'.ev[i].att].fullPath = currentRoute.fullPath
           /\ (i = Len(last'.ev) \/ last'.ev[i + 1].e # "redirect")) =>
            (i < Len(last'.ev) /\ last'.ev[i + 1].e = "same")
     /\ \A i \in 1..Len(last'.ev) :
          last'.ev[i].e = "same" =>
            LET a == last'.ev[i].att
                call == atts'[a].call
            IN  /\ i > 1
                /\ last'.ev[i - 1] = [e |-> "pending", att |-> a]
                /\ \A j \in 1..(i - 1) :
                     last'.ev[j].e \in {"pending", "redirect"}
                /\ SubSeq(last'.ev, i + 1, Len(last'.ev))
                     = (IF calls'[call].cb
                        THEN <<[e |-> "complete", call |-> call]>>
                        ELSE <<>>)
                /\ currentRoute # Null
                /\ atts'[a].fullPath = currentRoute.fullPath
                /\ pendingRoute' = Null
                /\ currentRoute' = currentRoute
                /\ history'.entries = history.entries
                /\ asyncViews' = asyncViews
                /\ loads' = loads
                /\ Len(conts') = Len(conts)]_vars

\* a push to the current location has just been short-circuited
C7_Witness ==
  /\ last.op = "push"
  /\ EventsOf("same") # {}
  /\ calls[last.call].complete = 1
  /\ currentRoute # Null
  /\ pendingRoute = Null

\* C8: of two calls with callbacks that resolve to the same full path,
\* whose guards all continue and whose components load, once nothing is
\* left in flight both have had their completion callback invoked, and
\* their routes were given to the navigation-changed listeners at most
\* once.
C8_PushTwiceIsIdempotent ==
  \A a1, a2 \in 1..Len(atts) :
    (/\ a1 < a2
     /\ atts[a1].call # atts[a2].call
     /\ calls[atts[a1].call].cb
     /\ calls[atts[a2].call].cb
     /\ atts[a1].fullPath = atts[a2].fullPath
     /\ \A a \in {a1, a2} :
          /\ atts[a].from = 0
          /\ atts[a].aborts = 0
          /\ atts[a].redirects = 0
     /\ \A id \in DOMAIN components : components[id] # "rejected"
     /\ InFlight(State) = {}) =>
      /\ calls[atts[a1].call].complete = 1
      /\ calls[atts[a2].call].complete = 1
      /\ atts[a1].changed + atts[a2].changed <= 1

\* the raw locations that fail before the guard chain, with the failure
FailureOf(raw) ==
  IF raw = NoRedirect \/ raw = Str(<<"/", "a", "?", "?">>)
  THEN "invalid location"
  ELSE IF raw = Named("NONE", <<>>) THEN "no matching route (name)"
  ELSE IF raw = Named("USER", <<>>) THEN "invalid route parameters"
  ELSE IF raw = Str(<<"/", "x">>) THEN "no matching route (path)"
  ELSE "none"

C10_PushNeverThrows ==
  \A c \in 1..Len(calls) : ~calls[c].thrown

\* C11: a step that creates a pending route declaring a redirect discards
\* it at once and starts a navigation to the redirect target with the
\* callbacks of the same call: the next pending route is normalized from
\* the redirect target, or the target fails with the abort callback and an
\* error event.  The redirecting route is never given to the
\* before-navigation listeners, to a guard or to the navigation-changed
\* listeners, never commits and is never currentRoute.
C11_RouteRedirectRestarts ==
  /\ \A i \in 1..Len(last.ev) :
       (last.ev[i].e = "pending"
        /\ atts[last.ev[i].att].redirect.kind # "null") =>
         LET a == last.ev[i].att
             rest == SubSeq(last.ev, i + 2, Len(last.ev))
         IN  /\ i < Len(last.ev)
             /\ last.ev[i + 1].e = "redirect"
             /\ pendingRoute # Null => pendingRoute.att # a
             /\ rest # <<>>
             /\ IF rest[1].e = "pending"
                THEN /\ rest[1].att = a + 1
                     /\ atts[a + 1].call = atts[a].call
                     /\ atts[a + 1].raw = atts[a].redirect
                     /\ atts[a + 1].from = atts[a].from
                ELSE /\ rest[Len(rest)].e = "error"
                     /\ rest[Len(rest)].call = atts[a].call
                     /\ Len(rest) = (IF calls[atts[a].call].cb THEN 2 ELSE 1)
                     /\ rest[1].e \in {"abort", "error"}
                     /\ rest[1].call = atts[a].call
  /\ \A i \in 1..Len(last.ev) :
       last.ev[i].e \in {"before", "guard", "changed", "commit", "load",
                         "same"} =>
         atts[last.ev[i].att].redirect.kind = "null"
  /\ \A a \in 1..Len(atts) :
       atts[a].redirect.kind # "null" =>
         /\ atts[a].invoked = <<>>
         /\ atts[a].changed = 0
         /\ atts[a].commits = 0
  /\ currentRoute # Null =>
       /\ currentRoute.redirect.kind = "null"
       /\ atts[currentRoute.att].redirect.kind = "null"

\* a push to the redirecting route has committed the redirect target
C11_Witness ==
  /\ last.op = "push"
  /\ last.v.raw = Str(<<"/", "r">>)
  /\ EventsOf("redirect") # {}
  /\ EventsOf("commit") # {}
  /\ currentRoute # Null
  /\ currentRoute.fullPath = <<"/", "a">>
  /\ calls[last.call].complete = 1

ChainCall(l) ==
  IF l.op = "next" THEN conts[l.k].call
  ELSE IF l.op = "load" THEN loads[l.k].call
  ELSE l.call

\* C13: in a step that commits, the navigation-changed listeners are
\* notified first, with the clone of the route that was currentRoute
\* before the step and the clone of the pending route; then currentRoute
\* is that clone of the pending route and the pending route is cleared;
\* then the history is written, with currentRoute.fullPath, by push when
\* the action is PUSH and by replace when it is REPLACE, exactly when its
\* full URL differed from currentRoute.fullPath; and the completion
\* callback is invoked last.
C13_CommitOrder ==
  [][\A i \in 1..Len(last'.ev) :
       last'.ev[i].e = "commit" =>
         LET changed == last'.ev[i - 1]
             idx == IF last'.op = "pop" THEN history.index + last'.k
                    ELSE history.index
             s == [State EXCEPT !.hist.index = idx]
             url == currentRoute'.fullPath
             differs == historyFullURL(historyLocation(s)) # url
             rest == SubSeq(last'.ev, i + 1, Len(last'.ev))
             call == ChainCall(last')
             complete == IF calls'[call].cb
                         THEN <<[e |-> "complete", call |-> call]>>
                         ELSE <<>>
         IN  /\ i > 1
             /\ changed.e = "changed"
             /\ changed.old = cloneRoute(currentRoute)
             /\ changed.new = currentRoute'
             /\ changed.att = last'.ev[i].att
             /\ \A j \in 1..(i - 2) :
                  last'.ev[j].e \notin {"changed", "commit", "complete",
                                        "history.push", "history.replace"}
             /\ currentRoute' # Null
             /\ currentRoute'.att = last'.ev[i].att
             /\ currentRoute'.fullPath = atts'[last'.ev[i].att].fullPath
             /\ pendingRoute' = Null
             /\ IF ~differs
                THEN /\ rest = complete
                     /\ history' = s.hist
                ELSE IF currentRoute'.action = "PUSH"
                THEN /\ rest = <<[e |-> "history.push", url |-> url]>>
                                 \o complete
                     /\ history' = historyPush(s, url).hist
                ELSE /\ currentRoute'.action = "REPLACE"
                     /\ rest = <<[e |-> "history.replace", url |-> url]>>
                                 \o complete
                     /\ history' = historyReplace(s, url).hist]_vars

\* a replace has committed: listeners, history.replace, completion callback
C13_Witness ==
  /\ last.op = "replace"
  /\ EventsOf("changed") # {}
  /\ EventsOf("commit") # {}
  /\ EventsOf("history.replace") # {}
  /\ last.ev[Len(last.ev)].e = "complete"
  /\ pendingRoute = Null

C15_PendingOnlyInFlight ==
  InFlight(State) = {} => pendingRoute = Null

\* the reference search: the ids of the first chain, in the order of the
\* siblings and depth first, of routes that all accept the path and of
\* which the last has no children; <<>> when there is none
RECURSIVE FirstChain(_, _)
FirstChain(path, routes) ==
  IF routes = <<>> THEN <<>>
  ELSE LET route == Node(Head(routes))
           below == FirstChain(path, route.children)
       IN  IF ~matcherExec(route, path).ok
           THEN FirstChain(path, Tail(routes))
           ELSE IF route.children = <<>> THEN <<route.id>>
           ELSE IF below # <<>> THEN <<route.id>> \o below
           ELSE FirstChain(path, Tail(routes))

\* C16: for the path of a pushed location, matchRoute succeeds exactly
\* when the reference search finds a chain, and its matches are then the
\* records of that chain, one per node from the root to the leaf, with
\* nothing left of a branch that was given up; when there is no chain the
\* matches are empty.  The push commits a route with those records, or
\* fails with the error of no matching path.
C16_FirstChainWins ==
  (last.op = "push" /\ last.v.raw.kind = "str") =>
    LET path == rawLocationToLocation(last.v.raw, FALSE).path
        chain == FirstChain(path, routeConfigs.level)
        r == matchRoute(path, routeConfigs.level, <<>>)
        records == [i \in 1..Len(chain) |->
                      createRouteRecord(
                        Node(chain[i]),
                        matcherExec(Node(chain[i]), path).caps, TRUE)]
    IN  /\ r.ok = (chain # <<>>)
        /\ r.matches = records
        /\ \A i \in 1..Len(chain) :
             /\ matcherExec(Node(chain[i]), path).ok
             /\ Node(chain[i]).parent = (IF i = 1 THEN 0 ELSE chain[i - 1])
        /\ chain # <<>> => Node(chain[Len(chain)]).children = <<>>
        /\ IF chain = <<>>
           THEN /\ currentRoute = Null
                /\ pendingRoute = Null
                /\ last.ev = <<[e |-> "abort", call |-> last.call],
                               [e |-> "error", call |-> last.call,
                                why |-> "no matching route (path)"]>>
           ELSE /\ currentRoute # Null
                /\ currentRoute.matched
                     = [i \in 1..Len(records) |->
                          [records[i] EXCEPT !.id = 0]]

\* a path has resolved to the second of two parents that accept it, after
\* the children of the first were tried
C16_Witness ==
  /\ last.op = "push"
  /\ last.v.raw = Str(<<"/", "u", "/", "a">>)
  /\ currentRoute # Null
  /\ Len(currentRoute.matched) = 2
  /\ currentRoute.name = "SLUG"


\* C17: when the last root of the tree is the wildcard '*', a pushed path
\* never fails for want of a matching route; and a path that no chain
\* below an earlier root accepts resolves to the wildcard alone: matched
\* is the one record of the wildcard, whose path is '*'.
C17_WildcardCatchesAll ==
  LET roots == routeConfigs.level
      wildcard == Node(roots[Len(roots)])
  IN  (/\ roots # <<>>
       /\ wildcard.path = <<"*">>
       /\ last.op = "push"
       /\ last.v.raw.kind = "str") =>
        LET path == rawLocationToLocation(last.v.raw, FALSE).path
            earlier == FirstChain(path, SubSeq(roots, 1, Len(roots) - 1))
        IN  /\ \A i \in 1..Len(last.ev) : last.ev[i].e # "error"
            /\ currentRoute # Null
            /\ currentRoute.path = path
            /\ earlier = <<>> =>
                 /\ Len(currentRoute.matched) = 1
                 /\ currentRoute.matched[1].path = <<"*">>
                 /\ currentRoute.matched[1]
                      = [createRouteRecord(wildcard, <<>>, TRUE)
                           EXCEPT !.id = 0]
            /\ earlier # <<>> =>
                 currentRoute.matched[1].path # <<"*">>

\* two parents accepted the path and none of their children did: the
\* route is the wildcard
C17_Witness ==
  /\ last.op = "push"
  /\ last.v.raw = Str(<<"/", "u", "/", "5", "/", "a">>)
  /\ currentRoute # Null
  /\ Len(currentRoute.matched) = 1
  /\ currentRoute.matched[1].path = <<"*">>
  /\ currentRoute.name = "ANY"


\* the ids of the routes from the root down to the route id
RECURSIVE AncestorChain(_)
AncestorChain(id) ==
  IF Node(id).parent = 0 THEN <<id>>
  ELSE Append(AncestorChain(Node(id).parent), id)

\* C18: a pushed location whose name is the name of a route resolves to
\* the records of that route's ancestors from the root down to the route
\* itself, one record per route, each holding the caller's params under
\* the keys its own route declares and no other; the path of the route is
\* what the named route's generator makes of the caller's params.  When
\* the generator rejects the params the push ends with the abort callback
\* and the error of invalid parameters: no attempt was made and no route
\* is current or pending.
C18_NamedRouteResolution ==
  LET named == {id \in 1..Len(routeConfigs.nodes) :
                  last.v.raw.name = Node(id).name}
  IN  (last.op = "push" /\ last.v.raw.kind = "obj" /\ named # {}) =>
        LET id == CHOOSE n \in named : TRUE
            params == last.v.raw.params
            chain == AncestorChain(id)
            generated == generator(Node(id), params)
            KeysOf(n) == {Node(n).paramKeys[i].name :
                            i \in 1..Len(Node(n).paramKeys)}
        IN  IF generated.ok
            THEN /\ currentRoute # Null
                 /\ currentRoute.path = generated.path
                 /\ currentRoute.name = Node(id).name
                 /\ Len(currentRoute.matched) = Len(chain)
                 /\ \A i \in 1..Len(chain) :
                      LET record == currentRoute.matched[i]
                      IN  /\ record.path = Node(chain[i]).path
                          /\ record.name = Node(chain[i]).name
                          /\ DOMAIN record.params
                               = KeysOf(chain[i])
                                   \cap {n \in DOMAIN params :
                                           params[n] # Undef}
                          /\ \A n \in DOMAIN record.params :
                               record.params[n] = params[n]
            ELSE /\ currentRoute = Null
                 /\ pendingRoute = Null
                 /\ atts = <<>>
                 /\ last.ev = <<[e |-> "abort", call |-> last.call],
                                [e |-> "error", call |-> last.call,
                                 why |-> "invalid route parameters"]>>

\* a named child route has resolved with the params of its parent's path,
\* its own, and one that no route declares
C18_Witness ==
  /\ last.op = "push"
  /\ last.v.raw.kind = "obj"
  /\ last.v.raw.name = "X"
  /\ DOMAIN last.v.raw.params = {"slug", "id", "q"}
  /\ currentRoute # Null
  /\ currentRoute.path = <<"/", "a", "/", "5">>
  /\ Len(currentRoute.matched) = 2
  /\ DOMAIN currentRoute.matched[1].params = {"slug"}
  /\ DOMAIN currentRoute.matched[2].params = {"slug", "id"}


\* C19: a call of routeURL only returns a URL or throws.  The current and
\* the pending route, the cache of async components, the history, the
\* guards, the closures and loads that are waiting and the attempts are
\* what they were, and nothing is invoked: no guard, no listener, no
\* callback.  It returns, for a name of the tree whose generator accepts
\* the params, the generated path with the query and the hash; it throws
\* otherwise.
C19_RouteURLIsPure ==
  [][last'.op = "routeURL" =>
       LET raw == last'.v.raw
           named == {id \in 1..Len(routeConfigs.nodes) :
                       raw.kind = "obj" /\ raw.name # NoName
                       /\ raw.name = Node(id).name}
           returns == /\ named # {}
                      /\ generator(Node(CHOOSE id \in named : TRUE),
                                   raw.params).ok
       IN  /\ UNCHANGED <<routeConfigs, guardCallbacks, listeners, currentRoute, pendingRoute,
                          navigationGuards, nextKey, asyncViews, history,
                          components, conts, loads, stack, started, calls,
                          atts>>
           /\ Len(last'.ev) = 1
           /\ last'.exc = ~returns
           /\ last'.ev[1].e = (IF returns THEN "return" ELSE "throw")
           /\ returns =>
                last'.ev[1].url
                  = fullURL(generator(Node(CHOOSE id \in named : TRUE),
                                      raw.params).path,
                            raw.query,
                            IF raw.hash = NoStr THEN <<>> ELSE raw.hash)]_vars

\* the URL of a route was asked and returned while another navigation was
\* waiting for its guard, with a route current
C19_Witness ==
  /\ last.op = "routeURL"
  /\ ~last.exc
  /\ last.ev = <<[e |-> "return",
                  url |-> <<"/", "u", "/", "a", "?", "q", "=", "1", "#", "h">>]>>
  /\ currentRoute # Null
  /\ pendingRoute # Null
  /\ navigationGuards # <<>>
  /\ \E k \in 1..Len(conts) : conts[k].used = 0


\* the guards other than the one of the key, in their order
GuardsWithout(guards, key) ==
  SelectSeq(guards, LAMBDA k : k # key)

\* the entries of a Map other than the one of the key, in their order
EntriesWithout(map, key) ==
  SelectSeq(map, LAMBDA e : e.key # key)

\* C20: a registration adds one entry under a key never used before, after
\* the entries there are.  The function a registration returned removes
\* the entry of its own key and nothing else: every other entry, one of
\* the same callback registered later included, stays, and the entries
\* that stay keep their order; the other registries are left alone.
\* Called once more it finds no entry and changes nothing.
C20_UnregisterRemovesItsOwn ==
  [][/\ last'.op = "register" =>
          /\ last'.k \notin 1..nextKey
          /\ navigationGuards' = Append(navigationGuards, last'.k)
          /\ guardCallbacks'[last'.k] \in Callbacks
          /\ \A key \in 1..nextKey :
               guardCallbacks'[key] = guardCallbacks[key]
          /\ listeners' = listeners
     /\ last'.op = "unregister" =>
          LET held == \E i \in 1..Len(navigationGuards) :
                         navigationGuards[i] = last'.k
          IN  /\ navigationGuards' = GuardsWithout(navigationGuards, last'.k)
              /\ Len(navigationGuards')
                   = Len(navigationGuards) - (IF held THEN 1 ELSE 0)
              /\ ~held => navigationGuards' = navigationGuards
              /\ (last'.ev = <<>>) = ~held
              /\ guardCallbacks' = guardCallbacks
              /\ listeners' = listeners
     /\ last'.op = "on" =>
          LET kind == listeners'.issued[last'.k]
          IN  /\ last'.k \notin 1..Len(listeners.issued)
              /\ Len(listeners'[kind]) = Len(listeners[kind]) + 1
              /\ SubSeq(listeners'[kind], 1, Len(listeners[kind]))
                   = listeners[kind]
              /\ listeners'[kind][Len(listeners'[kind])].key = last'.k
              /\ \A other \in ListenerKinds \ {kind} :
                   listeners'[other] = listeners[other]
              /\ navigationGuards' = navigationGuards
     /\ last'.op = "off" =>
          LET kind == listeners.issued[last'.k]
              held == \E i \in 1..Len(listeners[kind]) :
                         listeners[kind][i].key = last'.k
          IN  /\ listeners'[kind] = EntriesWithout(listeners[kind], last'.k)
              /\ Len(listeners'[kind])
                   = Len(listeners[kind]) - (IF held THEN 1 ELSE 0)
              /\ ~held => listeners' = listeners
              /\ (last'.ev = <<>>) = ~held
              /\ listeners'.issued = listeners.issued
              /\ \A other \in ListenerKinds \ {kind} :
                   listeners'[other] = listeners[other]
              /\ navigationGuards' = navigationGuards
              /\ guardCallbacks' = guardCallbacks]_vars

\* three guards were registered, the first and the third with the same
\* callback; the function of the first was called twice, and the second
\* call found nothing: the two other guards are there, in their order
C20_Witness ==
  /\ last.op = "unregister"
  /\ last.k = 1
  /\ last.ev = <<>>
  /\ nextKey = 3
  /\ navigationGuards = <<2, 3>>
  /\ guardCallbacks[1] = guardCallbacks[3]
  /\ guardCallbacks[2] # guardCallbacks[1]


\* the prefabs createRouteConfig accepts, in their order
KeptPrefabs(prefabs) ==
  SelectSeq(prefabs, LAMBDA prefab : prefab.path # NoStr)

\* the routes of a level are those of the accepted prefabs, one for one
\* and in their order, and so are their children
RECURSIVE CompiledFrom(_, _)
CompiledFrom(level, prefabs) ==
  LET kept == KeptPrefabs(prefabs)
  IN  /\ Len(level) = Len(kept)
      /\ \A i \in 1..Len(kept) :
           /\ Node(level[i]).name = kept[i].name
           /\ Node(level[i]).redirect = kept[i].redirect
           /\ CompiledFrom(Node(level[i]).children, kept[i].children)

\* the number of prefabs of the trees that are accepted and whose
\* ancestors all are
RECURSIVE CountKept(_)
CountKept(prefabs) ==
  IF prefabs = <<>> THEN 0
  ELSE (IF Head(prefabs).path # NoStr
        THEN 1 + CountKept(Head(prefabs).children) ELSE 0)
       + CountKept(Tail(prefabs))

\* C21: the router is constructed from every tree of prefabs; the routes
\* it has are those of the prefabs that are valid and whose ancestors are
\* valid, level by level in the order of the prefabs: an invalid prefab is
\* left out with everything below it, and the valid prefabs before and
\* after it, with what is below them, are there.
C21_InvalidPrefabIsSkipped ==
  last.op = "init" =>
    \A prefabs \in PrefabTrees :
      routeConfigs = preprocessRoutes(<<>>, prefabs, 0) =>
        /\ CompiledFrom(routeConfigs.level, prefabs)
        /\ Len(routeConfigs.nodes) = CountKept(prefabs)
        /\ \A id \in 1..Len(routeConfigs.nodes) :
             /\ Node(id).id = id
             /\ Node(id).name \notin {"BAD", "C"}
             /\ \A i \in 1..Len(Node(id).children) :
                  Node(Node(id).children[i]).parent = id

\* the tree was built from an invalid prefab, a parent whose second child
\* is invalid, and a valid prefab: two routes at the root, two below the
\* first of them
C21_Witness ==
  /\ last.op = "init"
  /\ Len(routeConfigs.level) = 2
  /\ Node(routeConfigs.level[1]).name = "U"
  /\ Node(routeConfigs.level[2]).name = "A"
  /\ Len(Node(routeConfigs.level[1]).children) = 2
  /\ Node(Node(routeConfigs.level[1]).children[1]).name = "B"
  /\ Node(Node(routeConfigs.level[1]).children[2]).name = "UA"
  /\ Len(routeConfigs.nodes) = 4


\* the declared path of a prefab put after the path of its parent, with
\* one '/' between them; the parent's path when nothing is declared
SuffixJoined(parentPath, declared) ==
  LET a == IF hasSuffix(parentPath, <<"/">>)
           THEN SubSeq(parentPath, 1, Len(parentPath) - 1) ELSE parentPath
      b == IF hasPrefix(declared, <<"/">>) THEN Tail(declared) ELSE declared
  IN  IF declared = <<>> THEN parentPath ELSE a \o <<"/">> \o b

\* every route of the level has the path its prefab declares joined to
\* the path of its parent, and begins with '/', and so have its children;
\* the wildcard has the path '*'
RECURSIVE PathsJoined(_, _, _)
PathsJoined(level, prefabs, parentPath) ==
  LET kept == KeptPrefabs(prefabs)
  IN  \A i \in 1..Len(kept) :
        LET path == Node(level[i]).path
        IN  /\ IF kept[i].path = <<"*">> THEN path = <<"*">>
               ELSE /\ hasPrefix(path, <<"/">>)
                    /\ path = SuffixJoined(parentPath, kept[i].path)
            /\ PathsJoined(Node(level[i]).children, kept[i].children, path)

\* C22: in the tree built from any prefabs, every route but the wildcard
\* has a path that begins with '/' and is the join of the paths declared
\* by its ancestors and by itself, a route that declares the empty path
\* having the path of its parent; the wildcard has the path '*'.
C22_CompiledPathsAreJoined ==
  last.op = "init" =>
    \A prefabs \in PrefabTrees :
      routeConfigs = preprocessRoutes(<<>>, prefabs, 0) =>
        PathsJoined(routeConfigs.level, prefabs, <<>>)


\* C23: a route without children that is not the wildcard has a matcher
\* anchored at the end, and a route with children has one that is not; so
\* when a pushed path has resolved to a route that is not the wildcard,
\* the pattern of the last record matches the whole of the path.
C23_LeafMatchesWholePath ==
  last.op = "push" =>
    /\ \A id \in 1..Len(routeConfigs.nodes) :
         ~Node(id).wildcard => (Node(id).end = (Node(id).children = <<>>))
    /\ currentRoute # Null =>
         LET record == currentRoute.matched[Len(currentRoute.matched)]
         IN  record.path # <<"*">> =>
               pathToRegexpExec(record.path, TRUE, currentRoute.path).ok


\* the number of times the character occurs in the string
Occurrences(str, ch) == Cardinality({i \in 1..Len(str) : str[i] = ch})

\* the raw location of the push or replace just made, as createLocation
\* is given it
RawOfLast ==
  [path |-> IF last.v.raw.path = NoStr THEN <<>> ELSE last.v.raw.path,
   replace |-> last.op = "replace"]

C25_CallerQueryAndHashWin ==
  (last.op \in {"push", "replace"} /\ last.v.raw.kind = "obj") =>
    LET raw == last.v.raw
        location == rawLocationToLocation(raw, last.op = "replace")
        path == IF hasPrefix(raw.path, <<"/">>) THEN raw.path
                ELSE <<"/">> \o raw.path
        parsed == parseURL(path)
    IN  (location.ok /\ raw.path # NoStr) =>
          /\ \A i \in 1..Len(raw.query) :
               /\ QueryHas(location.query, raw.query[i].k)
               /\ QueryGet(location.query, raw.query[i].k) = raw.query[i].v
          /\ \A i \in 1..Len(parsed.query) :
               ~QueryHas(raw.query, parsed.query[i].k) =>
                 /\ QueryHas(location.query, parsed.query[i].k)
                 /\ QueryGet(location.query, parsed.query[i].k)
                      = parsed.query[i].v
          /\ \A i \in 1..Len(location.query) :
               \/ QueryHas(raw.query, location.query[i].k)
               \/ QueryHas(parsed.query, location.query[i].k)
          /\ location.hash = (IF raw.hash # NoStr THEN StripHash(raw.hash)
                              ELSE parsed.hash)
          /\ currentRoute # Null
          /\ currentRoute.hash = location.hash


\* a raw path is well formed when it has at most one '#', at most one '?'
\* before it, and a query string, if any, made of key=value entries with
\* one '=' each and keys that differ
WellFormed(path) ==
  LET h == IndexOf(path, "#")
      before == IF h = 0 THEN path ELSE SubSeq(path, 1, h - 1)
      q == IndexOf(before, "?")
      entries == Split(SubSeq(before, q + 1, Len(before)), "&")
  IN  /\ Occurrences(path, "#") <= 1
      /\ Occurrences(before, "?") <= 1
      /\ q # 0 =>
           /\ \A i \in 1..Len(entries) : Occurrences(entries[i], "=") = 1
           /\ \A i, j \in 1..Len(entries) :
                i # j => Split(entries[i], "=")[1] # Split(entries[j], "=")[1]

RouteIsWellMade(route) ==
  /\ route.matched # <<>>
  /\ LET record == route.matched[Len(route.matched)]
     IN  /\ route.name = record.name
         /\ route.params = record.params
         /\ route.redirect = record.redirect
  /\ route.fullPath
       = route.path
         \o (IF route.query # <<>> THEN <<"?">> \o QueryPath(route.query)
             ELSE <<>>)
         \o (IF route.hash # <<>> THEN <<"#">> \o route.hash ELSE <<>>)

\* C27: the pending route and the current route are well made, and the
\* route a push or replace has made current has the path, the hash, the
\* query and the action of the location it was made from.
C27_RouteIsMadeOfLocation ==
  /\ pendingRoute # Null => RouteIsWellMade(pendingRoute)
  /\ currentRoute # Null => RouteIsWellMade(currentRoute)
  /\ (last.op \in {"push", "replace"} /\ currentRoute # Null) =>
       LET location == rawLocationToLocation(last.v.raw, last.op = "replace")
       IN  /\ currentRoute.path = location.path
           /\ currentRoute.hash = location.hash
           /\ currentRoute.query = location.query
           /\ currentRoute.action = location.action


C29_CacheOnlyGrows ==
  [][/\ asyncViews \subseteq asyncViews'
     /\ \A id \in asyncViews' : components'[id] = "resolved"
     /\ \A id \in AsyncIds :
          components[id] # "pending" => components'[id] = components[id]
     /\ \A i \in (Len(loads) + 1)..Len(loads') :
          /\ loads'[i].ids \cap asyncViews = {}
          /\ loads'[i].ids \cap asyncViews' = {}]_vars

\* a third navigation has made current, without a load, a route whose
\* component a first navigation had loaded into the cache
C29_Witness ==
  /\ last.op = "push"
  /\ Len(calls) = 3
  /\ Len(loads) = 1
  /\ currentRoute # Null
  /\ currentRoute.name = "B"
  /\ \E i \in 1..Len(last.ev) : last.ev[i].e = "commit"
  /\ \A i \in 1..Len(last.ev) : last.ev[i].e # "load"
  /\ asyncViews # {}


\* the positions of the history writes among the events of a step
HistoryWrites(ev) ==
  {i \in 1..Len(ev) : ev[i].e \in {"history.push", "history.replace"}}

\* C30: the history changes under the router only by a write that comes
\* right after a commit, or after a guard's abort in the same step; the URL
\* written differs from the full URL the history has at that moment, and
\* the location the history stores for it is not the location it has.
C30_NoRedundantHistoryWrite ==
  [][LET ev == last'.ev
         writes == HistoryWrites(ev)
         before == IF last'.op = "pop"
                   THEN history.entries[history.index + last'.k]
                   ELSE history.entries[history.index]
         Present(i) ==
           IF \E j \in writes : j < i
           THEN parsePath(ev[CHOOSE j \in writes :
                               j < i /\ \A k \in writes : k < i => k <= j].url)
           ELSE before
     IN  /\ (last'.op # "pop" /\ history' # history) => writes # {}
         /\ \A i \in writes :
              /\ \/ i > 1 /\ ev[i - 1].e = "commit"
                 \/ /\ \E a \in 1..Len(atts') :
                         atts'[a].aborts >
                           (IF a <= Len(atts) THEN atts[a].aborts ELSE 0)
                    /\ ev[i].e = "history.push"
              /\ ev[i].url # historyFullURL(Present(i))
              /\ parsePath(ev[i].url) # Present(i)]_vars

(***************************************************************************)
(* One navigation at a time, with guards that answer and components that    *)
(* settle.                                                                  *)
(***************************************************************************)
\* no guard holds an uncalled next closure and no Promise.all is pending
Idle ==
  /\ ~InChain
  /\ \A i \in 1..Len(loads) : loads[i].settled

\* the raw locations passed to replace: also the route that redirects
LiveReplaceLocations == ReplaceLocations \cup {Str(<<"/", "r">>)}

\* the values guards pass to next: also a location object that carries
\* replace: true
LiveNextValues ==
  NextValues \cup {NextTo(Named("A", <<>>) @@ [replace |-> TRUE])}

\* The application navigates only while the router is idle.
NextLive ==
  \/ \E rawLocation \in RawLocations :
        Idle /\ Len(calls) < MaxCalls /\ Push(rawLocation, FALSE)
  \/ \E rawLocation \in LiveReplaceLocations :
        Idle /\ Len(calls) < MaxCalls /\ Replace(rawLocation, FALSE)
  \/ \E k \in 1..Len(conts), v \in LiveNextValues : Next_(k, v, FALSE)
  \/ Idle /\ Register
  \/ \E id \in AsyncIds, ok \in BOOLEAN : ComponentSettles(id, ok)
  \/ \E i \in 1..Len(loads) : LoadSettled(i)

\* a guard that holds an uncalled next closure calls it; the steps that
\* count one more answer are the steps of Next_
Answers == InChain /\ answered' = answered + 1

\* the Promise.all of a load runs its callback once a component has
\* rejected or all have resolved; the steps that mark a load settled are
\* the steps of LoadSettled
Settles ==
  \E i \in 1..Len(loads) :
    /\ ~loads[i].settled
    /\ IF \E id \in loads[i].ids : components[id] = "rejected" THEN TRUE
       ELSE \A id \in loads[i].ids : components[id] = "resolved"
    /\ loads' = [loads EXCEPT ![i].settled = TRUE]

\* every guard calls the next closure it holds, every component promise
\* settles and every Promise.all runs its callback
SpecLive ==
  /\ Init
  /\ [][NextLive]_vars
  /\ WF_answered(Answers)
  /\ WF_vars(\E id \in AsyncIds, ok \in BOOLEAN : ComponentSettles(id, ok))
  /\ WF_loads(Settles)

\* the call has nothing suspended and has invoked one callback, once
Finished(c) ==
  /\ c \in DOMAIN calls
  /\ \A k \in 1..Len(conts) : conts[k].call = c => conts[k].used > 0
  /\ \A i \in 1..Len(loads) : loads[i].call = c => loads[i].settled
  /\ calls[c].complete + calls[c].abort = 1

\* C31: when navigations do not overlap, guards answer once and component
\* loads settle, every push/replace call comes to an end, nothing of it
\* suspended, with exactly one of onComplete and onAbort invoked, once; and
\* it never invokes more than one.
C31_EveryCallFinishes ==
  /\ [](\A c \in DOMAIN calls : calls[c].complete + calls[c].abort <= 1)
  /\ \A c \in 1..MaxCalls : (c \in DOMAIN calls) ~> [](Finished(c))

\* a call that a guard has redirected has finished by completing
C31_Witness ==
  \E c \in DOMAIN calls :
    /\ Finished(c)
    /\ calls[c].complete = 1
    /\ \E a \in 1..Len(atts) : atts[a].call = c /\ atts[a].redirects > 0

\* the attempt whose suspended chain the step continues: the attempt of
\* the next closure called or of the Promise.all settled (0 otherwise)
ContinuedAttempt ==
  IF last'.op = "next" THEN conts[last'.k].att
  ELSE IF last'.op = "load" THEN loads[last'.k].att
  ELSE 0

\* C32: when the pending route belongs to a later attempt than the one a
\* guard's next call or a settled component load continues, the step
\* neither commits that pending route nor clears it by aborting.
C32_SupersededHasNoEffect ==
  [][(/\ ContinuedAttempt # 0
      /\ pendingRoute # Null
      /\ pendingRoute.att # ContinuedAttempt)
     => /\ \A i \in 1..Len(last'.ev) :
             last'.ev[i].e = "commit" => last'.ev[i].att # pendingRoute.att
        /\ atts'[ContinuedAttempt].aborts > atts[ContinuedAttempt].aborts
             => pendingRoute' # Null]_vars

\* C33: whatever the interleaving of navigations, guard answers and
\* component loads, a push/replace call has its onComplete and onAbort
\* invoked at most once in total.
C33_CallbacksAtMostOnce ==
  \A c \in DOMAIN calls : calls[c].complete + calls[c].abort <= 1

\* two calls whose attempts overlapped have each had a callback invoked,
\* the second after a guard redirected it
C33_Witness ==
  \E a1, a2 \in 1..Len(atts) :
    /\ atts[a1].call # atts[a2].call
    /\ atts[a1].overlap
    /\ atts[a2].from # 0
    /\ calls[atts[a1].call].cb /\ calls[atts[a2].call].cb
    /\ calls[atts[a1].call].complete + calls[atts[a1].call].abort = 1
    /\ calls[atts[a2].call].complete + calls[atts[a2].call].abort = 1

(***************************************************************************)
(* Guards that call next again and guards that are unregistered while a    *)
(* chain is in progress.                                                    *)
(***************************************************************************)
\* calls a guard makes to one next closure
MaxAnswers == 2

\* a guard calls again a next closure it has already called
NextAgain(k, v) ==
  /\ k \in 1..Len(conts)
  /\ conts[k].used \in 1..(MaxAnswers - 1)
  /\ stack = <<>>
  /\ v.kind = "location" => Len(atts) < MaxAttempts
  /\ Done(guardNext(State, k, v), "next", 0, k, v, FALSE)
  /\ UNCHANGED <<routeConfigs, guardCallbacks, listeners, nextKey, components,
                 started>>

\* the raw locations pushed to the router whose guards misbehave
ChainLocations == {Str(<<"/", "a">>), Str(<<"/">>)}

\* the values these guards pass to next
ChainNextValues == {Continue, NextFalse, NextTo(Str(<<"/", "a">>))}

\* The application registers its guards, then navigates while the router
\* is idle; guards answer, answer again for the latest pending route, and
\* are unregistered while a guard holds an uncalled closure.
NextChain ==
  \/ calls = <<>> /\ Register
  \/ \E rawLocation \in ChainLocations :
        Idle /\ Len(calls) < MaxCalls /\ Push(rawLocation, FALSE)
  \/ \E k \in 1..Len(conts), v \in ChainNextValues : Next_(k, v, FALSE)
  \/ \E k \in 1..Len(conts), v \in ChainNextValues :
        conts[k].att = Len(atts) /\ NextAgain(k, v)
  \/ \E key \in 1..nextKey : InChain /\ Unregister(key)

SpecChain == Init /\ [][NextChain]_vars

\* C34: a call of a next closure that has been called before has no
\* effect: it invokes no guard, commits and aborts nothing, invokes no
\* callback, notifies no listener and throws nothing.
C34_SecondNextIsIgnored ==
  [][(last'.op = "next" /\ conts[last'.k].used > 0)
     => /\ last'.ev = <<>>
        /\ ~last'.exc
        /\ currentRoute' = currentRoute
        /\ pendingRoute' = pendingRoute
        /\ history' = history
        /\ calls' = calls
        /\ \A a \in 1..Len(atts) : atts'[a].invoked = atts[a].invoked]_vars

\* C35: when a navigation commits, every guard that was registered when
\* its pending route was created and is still registered has been invoked
\* for it.
C35_RegisteredGuardsAreInvoked ==
  [][\A i \in 1..Len(last'.ev) :
       last'.ev[i].e = "commit" =>
         LET a == last'.ev[i].att
         IN  \A g \in 1..Len(atts'[a].guards) :
               (\E j \in 1..Len(navigationGuards) :
                   navigationGuards[j] = atts'[a].guards[g])
                 => \E n \in 1..Len(atts'[a].invoked) :
                       atts'[a].invoked[n] = atts'[a].guards[g]]_vars

\* C36: whenever no route is pending, nothing is suspended in a guard or
\* in a component load and there is a current route, the full URL of the
\* history's location is the full path of the current route.
C36_HistoryFollowsCurrentRoute ==
  (/\ pendingRoute = Null
   /\ Idle
   /\ stack = <<>>
   /\ currentRoute # Null)
  => historyFullURL(history.entries[history.index]) = currentRoute.fullPath

\* C37: the route committed by an attempt that a redirect has restarted,
\* a route's own redirect or a guard's next(target), has history action
\* PUSH and the step does not replace the history's entry, whatever the
\* original call was and whatever flag the target carries.
C37_RedirectReentersAsPush ==
  [][\A i \in 1..Len(last'.ev) :
       last'.ev[i].e = "commit" =>
         LET a == last'.ev[i].att
             restarted ==
               \/ atts'[a].from # 0
               \/ /\ a > 1
                  /\ atts'[a - 1].call = atts'[a].call
                  /\ atts'[a - 1].redirect.kind # "null"
         IN  restarted =>
               /\ currentRoute'.action = "PUSH"
               /\ last'.ev[i - 1].new.action = "PUSH"
               /\ \A j \in 1..Len(last'.ev) :
                    last'.ev[j].e # "history.replace"]_vars

\* router.replace of the route that redirects has committed the target
\* and pushed it
C37_Witness ==
  /\ last.op = "replace"
  /\ \E i \in 1..Len(last.ev) : last.ev[i].e = "redirect"
  /\ \E i \in 1..Len(last.ev) : last.ev[i].e = "commit"
  /\ \E i \in 1..Len(last.ev) : last.ev[i].e = "history.push"
  /\ currentRoute # Null
  /\ currentRoute.action = "PUSH"

(***************************************************************************)
(* Routes whose declared redirects form cycles.                            *)
(***************************************************************************)
\* a route that redirects to a plain route, two routes that redirect to
\* each other and a route that redirects to itself
CyclePrefabs ==
  <<Prefab(<<"/", "a">>, "A", NoRedirect, FALSE, <<>>),
    Prefab(<<"/", "r">>, NoName, Str(<<"/", "a">>), FALSE, <<>>),
    Prefab(<<"/", "p">>, NoName, Str(<<"/", "q">>), FALSE, <<>>),
    Prefab(<<"/", "q">>, NoName, Str(<<"/", "p">>), FALSE, <<>>),
    Prefab(<<"/", "s">>, "S", Named("S", <<>>), FALSE, <<>>)>>

\* the application pushes and replaces the paths of these routes and a
\* path of none
NextCycle ==
  \E path \in {<<"/", "a">>, <<"/", "r">>, <<"/", "p">>, <<"/", "s">>,
               <<"/", "x">>} :
    /\ Len(calls) < MaxSyncCalls
    /\ \/ Push(Str(path), FALSE)
       \/ Replace(Str(path), FALSE)

SpecCycle == InitWith(CyclePrefabs) /\ [][NextCycle]_vars

\* C38: a push or replace of any path, with no guard and no component to
\* wait for, follows the declared redirects and ends in its own step
\* without throwing: a route without redirect commits or is found to be
\* the current one (onComplete), or the navigation aborts (onAbort).
C38_RedirectsTerminate ==
  [][last'.op \in {"push", "replace"} =>
       /\ ~last'.exc
       /\ calls'[last'.call].complete + calls'[last'.call].abort = 1
       /\ pendingRoute' = Null]_vars

\* the routes of the chain a push has committed, by path and name (<<>>
\* when it has committed none)
CommittedChain(s) ==
  LET changed == {i \in 1..Len(s.ev) : s.ev[i].e = "changed"}
  IN  IF changed = {} THEN <<>>
      ELSE LET matched == s.ev[CHOOSE i \in changed : TRUE].new.matched
           IN  [i \in 1..Len(matched) |->
                  [path |-> matched[i].path, name |-> matched[i].name]]

\* C39: when a push by name commits a route, routeURL returns a URL for
\* the same name and params, and a push of that URL as a path commits the
\* same chain of routes, which ends at the named route.
C39_NameAndURLAgree ==
  [][(/\ last'.op = "push"
      /\ last'.v.raw.kind = "obj"
      /\ CommittedChain([ev |-> last'.ev]) # <<>>)
     => LET url == routeURL(State, last'.v.raw)
            byName == CommittedChain([ev |-> last'.ev])
        IN  /\ ~url.exc
            /\ byName[Len(byName)].name = last'.v.raw.name
            /\ CommittedChain(
                 push([State EXCEPT !.calls = Append(@, NewCall(TRUE))],
                      Str(url.ev[1].url), FALSE, Len(calls) + 1, 0))
                 = byName]_vars

\* C40: a step changes the current route only by committing: its last
\* commit comes right after the navigation-changed listeners were given
\* the pending route of the same attempt, and the current route becomes
\* the route they were given; a step without a commit leaves the current
\* route as it was.
C40_CurrentRouteChangesAtCommit ==
  [][LET ev == last'.ev
         commits == {i \in 1..Len(ev) : ev[i].e = "commit"}
     IN  IF commits = {} THEN currentRoute' = currentRoute
         ELSE LET i == CHOOSE c \in commits : \A d \in commits : d <= c
              IN  /\ i > 1
                  /\ ev[i - 1].e = "changed"
                  /\ ev[i - 1].att = ev[i].att
                  /\ currentRoute' = ev[i - 1].new
                  /\ currentRoute'.fullPath = atts'[ev[i].att].fullPath]_vars

\* a guard's next() has committed the pending route over another current
\* route, after a guard's redirect had left the current route alone
C40_Witness ==
  /\ last.op = "next"
  /\ \E i \in 1..Len(last.ev) :
       /\ last.ev[i].e = "changed"
       /\ last.ev[i].old # Null
       /\ last.ev[i].old.fullPath # last.ev[i].new.fullPath
       /\ currentRoute = last.ev[i].new
  /\ \E a \in 1..Len(atts) : atts[a].redirects > 0

=============================================================================
